---- MODULE Spec2Model ----
(***************************************************************************)
(* A model of the DAG pipeline engine: the dependency graph (DAG), the     *)
(* orchestrator's execution loop with its dynamic expansion hooks, and the *)
(* persisted pipeline state used by resume().                              *)
(*                                                                         *)
(* The controller is a single JavaScript async function.  It runs without  *)
(* interruption between two awaits; the completion callbacks of dispatched *)
(* executions run while it is suspended at an await that waits for I/O or  *)
(* for a timer.  Each action below is one such uninterrupted stretch.      *)
(***************************************************************************)
EXTENDS Integers, Sequences, FiniteSets, TLC

(***************************************************************************)
(* Bounds of the model.                                                    *)
(***************************************************************************)
\* resume() calls (each on a fresh process) explored per run
MaxRestarts == 2
\* largest configured maxParallelDockerContainers explored
MaxParallelism == 2
\* largest configured simulatedParticipantCount explored
MaxPersonas == 1
\* calls made on a DAG held by a caller of the class
MaxCalls == 4

\* dependencies per node of a graph handed to validate and getTopologicalOrder
MaxDeps == 2

(***************************************************************************)
(* Program constants.                                                      *)
(***************************************************************************)
\* this.config.maxParallelDockerContainers || 2
DefaultParallel == 2

PENDING == "pending"
RUNNING == "running"
COMPLETED == "completed"
FAILED == "failed"
SKIPPED == "skipped"

PlanId == "plan"
CollectId == "collect"
SynthPlanId == "synthesize/plan"
SynthId == "synthesize"
CompileId == "synthesize/compile"
AggregateId == "collect/aggregate"

\* PipelineMode.SIMULATED = 'A', PipelineMode.REAL_DATA = 'B'
SIMULATED == "A"
REAL_DATA == "B"

(***************************************************************************)
(* Sequence helpers.                                                       *)
(***************************************************************************)
Range(s) == {s[k] : k \in 1..Len(s)}

\* the batch taken without the slice: every ready node is launched
SliceTo_All(s, n) == s

\* Array.prototype.slice(0, n), negative n counting from the end
SliceTo(s, n) ==
  LET hi == IF n >= 0 THEN (IF n < Len(s) THEN n ELSE Len(s))
            ELSE (IF Len(s) + n > 0 THEN Len(s) + n ELSE 0)
  IN SubSeq(s, 1, hi)

(***************************************************************************)
(* PhaseNode.  startedAt / completedAt record whether the timestamp is     *)
(* set; error is "" when absent; hasChildren tells whether the optional    *)
(* children field is present, children lists the children's ids.           *)
(***************************************************************************)
NewNode(id, type, deps) ==
  [id |-> id, type |-> type, dependsOn |-> deps, status |-> PENDING,
   startedAt |-> FALSE, completedAt |-> FALSE, error |-> "",
   hasChildren |-> FALSE, children |-> <<>>]

(***************************************************************************)
(* DAG: a Map from id to node.  d.nodes is the map, d.order its iteration  *)
(* (insertion) order.                                                      *)
(***************************************************************************)
MapSet(d, n) ==
  [nodes |-> [x \in (DOMAIN d.nodes) \cup {n.id} |->
                IF x = n.id THEN n ELSE d.nodes[x]],
   order |-> IF n.id \in DOMAIN d.nodes THEN d.order ELSE Append(d.order, n.id)]

RECURSIVE MapSetAll(_, _)
MapSetAll(d, ns) ==
  IF ns = <<>> THEN d ELSE MapSetAll(MapSet(d, Head(ns)), Tail(ns))

EmptyDAG == [nodes |-> <<>>, order |-> <<>>]

\* new DAG(nodes)
NewDAG(ns) == MapSetAll(EmptyDAG, ns)

Has(d, id) == id \in DOMAIN d.nodes

\* a dependency on a missing node taken as satisfied
DepSatisfied_MissingOk(d, depId) ==
  ~Has(d, depId) \/ d.nodes[depId].status \in {COMPLETED, SKIPPED}

DepSatisfied(d, depId) ==
  Has(d, depId) /\ d.nodes[depId].status \in {COMPLETED, SKIPPED}

AllDepsCompleted(d, id) ==
  \A k \in 1..Len(d.nodes[id].dependsOn) : DepSatisfied(d, d.nodes[id].dependsOn[k])

\* readiness that looks at the node's own status only
IsReady_StatusOnly(d, id) == d.nodes[id].status = PENDING

IsReady(d, id) == d.nodes[id].status = PENDING /\ AllDepsCompleted(d, id)

\* the ready nodes' ids, in container iteration order
getReadyNodes(d) == SelectSeq(d.order, LAMBDA id : IsReady(d, id))

getAllNodes(d) == [k \in 1..Len(d.order) |-> d.nodes[d.order[k]]]

\* completeness that takes a Failed node as unfinished
isComplete_FailedOpen(d) ==
  \A id \in DOMAIN d.nodes : d.nodes[id].status \notin {PENDING, RUNNING, FAILED}

isComplete(d) ==
  \A id \in DOMAIN d.nodes : d.nodes[id].status \notin {PENDING, RUNNING}

\* the Running test inverted
isStuck_RunningInverted(d) ==
  IF isComplete(d) THEN FALSE
  ELSE /\ Len(getReadyNodes(d)) = 0
       /\ {id \in DOMAIN d.nodes : d.nodes[id].status = RUNNING} # {}

isStuck(d) ==
  IF isComplete(d) THEN FALSE
  ELSE /\ Len(getReadyNodes(d)) = 0
       /\ {id \in DOMAIN d.nodes : d.nodes[id].status = RUNNING} = {}

\* the nodes that have a dependency in S
DirectDependents(d, S) ==
  {x \in DOMAIN d.nodes : \E k \in 1..Len(d.nodes[x].dependsOn) : d.nodes[x].dependsOn[k] \in S}

\* the nodes of S and every node that depends on one of them, directly or not
RECURSIVE Downstream(_, _)
Downstream(d, S) ==
  LET T == S \cup DirectDependents(d, S) IN IF T = S THEN S ELSE Downstream(d, T)

\* null
NoCycle == ""

\* dfs of detectCycle: st holds the visited and visiting sets and the result
\* (the id named in the error, NoCycle for null)
RECURSIVE dfs(_, _, _)
RECURSIVE dfsDeps(_, _, _, _)
dfs(d, nodeId, st) ==
  IF nodeId \in st.visited THEN st
  ELSE IF nodeId \in st.visiting THEN [st EXCEPT !.result = nodeId]
  ELSE LET st1 == [st EXCEPT !.visiting = @ \cup {nodeId}]
           st2 == IF Has(d, nodeId) THEN dfsDeps(d, d.nodes[nodeId].dependsOn, 1, st1)
                  ELSE st1
       IN IF st2.result # NoCycle THEN st2
          ELSE [st2 EXCEPT !.visiting = @ \ {nodeId}, !.visited = @ \cup {nodeId}]

dfsDeps(d, deps, k, st) ==
  IF k > Len(deps) THEN st
  ELSE LET r == dfs(d, deps[k], st)
       IN IF r.result # NoCycle THEN r ELSE dfsDeps(d, deps, k + 1, r)

RECURSIVE dfsRoots(_, _, _)
dfsRoots(d, k, st) ==
  IF k > Len(d.order) THEN st
  ELSE LET r == dfs(d, d.order[k], st)
       IN IF r.result # NoCycle THEN r ELSE dfsRoots(d, k + 1, r)

\* the search that leaves out the first node of the map
detectCycle_SkipsFirst(d) ==
  dfsRoots(d, 2, [visited |-> {}, visiting |-> {}, result |-> NoCycle]).result

\* detectCycle(): the id named in the cycle error, NoCycle when it returns null
detectCycle(d) ==
  dfsRoots(d, 1, [visited |-> {}, visiting |-> {}, result |-> NoCycle]).result

\* visit of getTopologicalOrder: st holds visited, visiting, order and the id
\* of the thrown error (NoCycle while nothing is thrown)
RECURSIVE visit(_, _, _)
RECURSIVE visitDeps(_, _, _, _)
visit(d, nodeId, st) ==
  IF nodeId \in st.visited THEN st
  ELSE IF nodeId \in st.visiting THEN [st EXCEPT !.threw = nodeId]
  ELSE LET st1 == [st EXCEPT !.visiting = @ \cup {nodeId}]
           st2 == IF Has(d, nodeId) THEN visitDeps(d, d.nodes[nodeId].dependsOn, 1, st1)
                  ELSE st1
       IN IF st2.threw # NoCycle THEN st2
          ELSE [st2 EXCEPT !.visiting = @ \ {nodeId}, !.visited = @ \cup {nodeId},
                           !.order = Append(@, nodeId)]

visitDeps(d, deps, k, st) ==
  IF k > Len(deps) THEN st
  ELSE LET r == visit(d, deps[k], st)
       IN IF r.threw # NoCycle THEN r ELSE visitDeps(d, deps, k + 1, r)

RECURSIVE visitKeys(_, _, _)
visitKeys(d, k, st) ==
  IF k > Len(d.order) THEN st
  ELSE LET r == visit(d, d.order[k], st)
       IN IF r.threw # NoCycle THEN r ELSE visitKeys(d, k + 1, r)

\* getTopologicalOrder(): threw tells whether it throws, order is what it returns
getTopologicalOrder(d) ==
  LET r == visitKeys(d, 1, [visited |-> {}, visiting |-> {}, order |-> <<>>, threw |-> NoCycle])
  IN [threw |-> r.threw # NoCycle, order |-> IF r.threw # NoCycle THEN <<>> ELSE r.order]

\* validate(): the kinds of error in the list it returns
validate(d) ==
  (IF \E x \in DOMAIN d.nodes : \E k \in 1..Len(d.nodes[x].dependsOn) :
          ~Has(d, d.nodes[x].dependsOn[k])
     THEN {"dangling"} ELSE {})
  \cup (IF DOMAIN d.nodes # {} /\ \A x \in DOMAIN d.nodes : Len(d.nodes[x].dependsOn) # 0
          THEN {"noRoots"} ELSE {})
  \cup (IF detectCycle(d) # NoCycle THEN {"cycle"} ELSE {})

\* the inner loop that looks at the first dependency only
DanglingOf_FirstDepOnly(d, id) ==
  LET deps == d.nodes[id].dependsOn
      missing == SelectSeq(SubSeq(deps, 1, IF Len(deps) > 0 THEN 1 ELSE 0),
                           LAMBDA depId : ~Has(d, depId))
  IN [k \in 1..Len(missing) |-> [kind |-> "dangling", node |-> id, dep |-> missing[k]]]

\* validate(): the errors pushed for one node, one per entry of dependsOn
\* that is not in the map
DanglingOf(d, id) ==
  LET deps == d.nodes[id].dependsOn
      missing == SelectSeq(deps, LAMBDA depId : ~Has(d, depId))
  IN [k \in 1..Len(missing) |-> [kind |-> "dangling", node |-> id, dep |-> missing[k]]]

RECURSIVE DanglingFrom(_, _)
DanglingFrom(d, k) ==
  IF k > Len(d.order) THEN <<>> ELSE DanglingOf(d, d.order[k]) \o DanglingFrom(d, k + 1)

\* validate(): the list it returns, in the order the errors are pushed
validateErrors(d) ==
  DanglingFrom(d, 1)
  \o (IF DOMAIN d.nodes # {} /\ \A x \in DOMAIN d.nodes : Len(d.nodes[x].dependsOn) # 0
        THEN << [kind |-> "noRoots", node |-> "", dep |-> ""] >> ELSE <<>>)
  \o (IF detectCycle(d) # NoCycle
        THEN << [kind |-> "cycle", node |-> detectCycle(d), dep |-> ""] >> ELSE <<>>)

CountStatus(d, s) == Cardinality({id \in DOMAIN d.nodes : d.nodes[id].status = s})

getSummary(d) ==
  [total |-> Cardinality(DOMAIN d.nodes),
   pending |-> CountStatus(d, PENDING), running |-> CountStatus(d, RUNNING),
   completed |-> CountStatus(d, COMPLETED), failed |-> CountStatus(d, FAILED),
   skipped |-> CountStatus(d, SKIPPED)]

(***************************************************************************)
(* updateParentStatus: every node whose children contain childId gets its  *)
(* status recomputed from its children; visited in iteration order.        *)
(***************************************************************************)
ChildStatusIn(d, p, S) ==
  {k \in 1..Len(d.nodes[p].children) :
      Has(d, d.nodes[p].children[k]) /\ d.nodes[d.nodes[p].children[k]].status \in S}

\* the recomputation that takes only Completed children as done
ParentAfter_CompletedOnly(d, p) ==
  LET n == d.nodes[p]
      allChildrenDone ==
        Cardinality(ChildStatusIn(d, p, {COMPLETED})) = Len(n.children)
      anyChildFailed == ChildStatusIn(d, p, {FAILED}) # {}
      anyOpen == ChildStatusIn(d, p, {PENDING, RUNNING}) # {}
  IN IF allChildrenDone
       THEN [n EXCEPT !.status = COMPLETED, !.completedAt = TRUE]
     ELSE IF anyChildFailed /\ ~anyOpen
       THEN [n EXCEPT !.status = FAILED, !.completedAt = TRUE, !.error = "child"]
     ELSE n

ParentAfter(d, p) ==
  LET n == d.nodes[p]
      allChildrenDone ==
        Cardinality(ChildStatusIn(d, p, {COMPLETED, SKIPPED})) = Len(n.children)
      anyChildFailed == ChildStatusIn(d, p, {FAILED}) # {}
      anyOpen == ChildStatusIn(d, p, {PENDING, RUNNING}) # {}
  IN IF allChildrenDone
       THEN [n EXCEPT !.status = COMPLETED, !.completedAt = TRUE]
     ELSE IF anyChildFailed /\ ~anyOpen
       THEN [n EXCEPT !.status = FAILED, !.completedAt = TRUE, !.error = "child"]
     ELSE n

RECURSIVE ParentsFrom(_, _, _)
ParentsFrom(d, childId, k) ==
  IF k > Len(d.order) THEN d
  ELSE LET p == d.order[k]
       IN IF d.nodes[p].hasChildren /\ childId \in Range(d.nodes[p].children)
            THEN ParentsFrom([d EXCEPT !.nodes[p] = ParentAfter(d, p)], childId, k + 1)
            ELSE ParentsFrom(d, childId, k + 1)

\* the recomputation that also empties the parent's dependency list
updateParentStatus_ClearsDeps(d, childId) ==
  LET r == ParentsFrom(d, childId, 1)
  IN [r EXCEPT !.nodes =
        [x \in DOMAIN r.nodes |->
           IF r.nodes[x].hasChildren /\ childId \in Range(r.nodes[x].children)
             THEN [r.nodes[x] EXCEPT !.dependsOn = <<>>]
             ELSE r.nodes[x]]]

updateParentStatus(d, childId) == ParentsFrom(d, childId, 1)

\* the update that loses the error text
updateStatus_DropsError(d, id, status, error) ==
  LET n0 == d.nodes[id]
      n1 == [n0 EXCEPT !.status = status,
                       !.startedAt = IF status = RUNNING THEN TRUE ELSE @,
                       !.completedAt =
                          IF status \in {COMPLETED, FAILED, SKIPPED} THEN TRUE ELSE @]
  IN updateParentStatus([d EXCEPT !.nodes[id] = n1], id)

\* updateStatus(nodeId, status, error?); nodeId is in the map
updateStatus(d, id, status, error) ==
  LET n0 == d.nodes[id]
      n1 == [n0 EXCEPT !.status = status,
                       !.startedAt = IF status = RUNNING THEN TRUE ELSE @,
                       !.completedAt =
                          IF status \in {COMPLETED, FAILED, SKIPPED} THEN TRUE ELSE @,
                       !.error = IF error # "" THEN error ELSE @]
  IN updateParentStatus([d EXCEPT !.nodes[id] = n1], id)

addNodes(d, newNodes) == MapSetAll(d, newNodes)

\* the rewrite left out
RewriteDeps_None(deps, parentId, aggId) == deps

\* expandNode(parentId, children); parentId is in the map, children non-empty
RewriteDeps(deps, parentId, aggId) ==
  [k \in 1..Len(deps) |-> IF deps[k] = parentId THEN aggId ELSE deps[k]]

\* the expansion that takes the first child as the aggregation node
expandNode_FirstChild(d, parentId, children) ==
  LET d1 == [d EXCEPT !.nodes[parentId] =
               [@ EXCEPT !.hasChildren = TRUE,
                         !.children = [k \in 1..Len(children) |-> children[k].id],
                         !.status = RUNNING,
                         !.startedAt = TRUE]]
      d2 == MapSetAll(d1, children)
      aggId == children[1].id
  IN [d2 EXCEPT !.nodes =
        [x \in DOMAIN d2.nodes |->
           IF x = parentId THEN d2.nodes[x]
           ELSE [d2.nodes[x] EXCEPT !.dependsOn = RewriteDeps(@, parentId, aggId)]]]

expandNode(d, parentId, children) ==
  LET d1 == [d EXCEPT !.nodes[parentId] =
               [@ EXCEPT !.hasChildren = TRUE,
                         !.children = [k \in 1..Len(children) |-> children[k].id],
                         !.status = RUNNING,
                         !.startedAt = TRUE]]
      d2 == MapSetAll(d1, children)
      aggId == children[Len(children)].id
  IN [d2 EXCEPT !.nodes =
        [x \in DOMAIN d2.nodes |->
           IF x = parentId THEN d2.nodes[x]
           ELSE [d2.nodes[x] EXCEPT !.dependsOn = RewriteDeps(@, parentId, aggId)]]]

\* updateStatus(nodeId, status, error?) for any nodeId: it throws when the map
\* has no such node, before anything is written
updateStatusOrThrow(d, id, status, error) ==
  IF ~Has(d, id) THEN [threw |-> TRUE, dag |-> d]
  ELSE [threw |-> FALSE, dag |-> updateStatus(d, id, status, error)]

\* the expansion that inserts the children before it looks for the parent
expandNodeOrThrow_ChildrenFirst(d, parentId, children) ==
  IF ~Has(d, parentId) THEN [threw |-> TRUE, dag |-> MapSetAll(d, children)]
  ELSE [threw |-> FALSE, dag |-> expandNode(d, parentId, children)]

\* expandNode(parentId, children) for any parentId: it throws when the map has
\* no such node, before anything is written
expandNodeOrThrow(d, parentId, children) ==
  IF ~Has(d, parentId) THEN [threw |-> TRUE, dag |-> d]
  ELSE [threw |-> FALSE, dag |-> expandNode(d, parentId, children)]

(***************************************************************************)
(* PersonaEngine.generatePersonaNodes(personaCount): three chained nodes   *)
(* per persona, then the aggregation node that waits for every persona.    *)
(***************************************************************************)
\* String(i).padStart(3, '0')
Pad3(i) == CASE i = 1 -> "001" [] i = 2 -> "002" [] i = 3 -> "003" [] OTHER -> "00x"

PersonaNodeId(i, step) == "collect/persona-" \o Pad3(i) \o "/" \o step

RECURSIVE PersonaChain(_, _)
PersonaChain(i, n) ==
  IF i > n THEN <<>>
  ELSE << NewNode(PersonaNodeId(i, "context"), "collect", <<>>),
          NewNode(PersonaNodeId(i, "experience"), "collect",
                  <<PersonaNodeId(i, "context")>>),
          NewNode(PersonaNodeId(i, "participate"), "collect",
                  <<PersonaNodeId(i, "experience")>>) >> \o PersonaChain(i + 1, n)

generatePersonaNodes(n) ==
  PersonaChain(1, n) \o
    << NewNode(AggregateId, "collect",
               [i \in 1..(IF n > 0 THEN n ELSE 0) |-> PersonaNodeId(i, "participate")]) >>

(***************************************************************************)
(* What the planning agents may leave in their output directories.  The    *)
(* orchestrator parses whatever it finds; "unreadable" stands for a file   *)
(* that is missing or is not JSON.                                         *)
(***************************************************************************)
Unreadable == [ok |-> FALSE, mode |-> "", nodes |-> <<>>, sections |-> <<>>]

PlanNode(id, type, deps) == [id |-> id, type |-> type, dependsOn |-> deps]

\* Mode A pipeline of the planning prompt, with a scoping branch beside it
PlanSimulated ==
  [ok |-> TRUE, sections |-> <<>>, mode |-> SIMULATED,
   nodes |-> << PlanNode("scope", "scope", <<>>),
                PlanNode("design", "design", <<>>),
                PlanNode(CollectId, "collect", <<"design">>),
                PlanNode(SynthPlanId, "synthesize", <<CollectId>>),
                PlanNode(SynthId, "synthesize", <<SynthPlanId>>),
                PlanNode("review", "review", <<SynthId>>) >>]

\* a plan classified as Mode B that still lists a collect node
PlanRealData ==
  [ok |-> TRUE, sections |-> <<>>, mode |-> REAL_DATA,
   nodes |-> << PlanNode("design", "design", <<>>),
                PlanNode(CollectId, "collect", <<"design">>) >>]

\* a plan without inputClassification that lists the planning node itself
PlanSelf ==
  [ok |-> TRUE, sections |-> <<>>, mode |-> "",
   nodes |-> << PlanNode(PlanId, "plan", <<>>),
                PlanNode("scope", "scope", <<>>) >>]

\* a plan that lists the planning node itself beside a node with two dependents
PlanSelfFan ==
  [ok |-> TRUE, sections |-> <<>>, mode |-> "",
   nodes |-> << PlanNode(PlanId, "plan", <<>>),
                PlanNode("scope", "scope", <<>>),
                PlanNode("review", "review", <<"scope">>),
                PlanNode("design", "design", <<"scope">>) >>]

\* a plan whose only node depends on an id that no node has
PlanDangling ==
  [ok |-> TRUE, sections |-> <<>>, mode |-> "",
   nodes |-> << PlanNode("review", "review", <<"ghost">>) >>]

PlanFiles == {PlanSimulated, PlanRealData, PlanSelf, PlanSelfFan, PlanDangling, Unreadable}

\* section_plan.json: the ids of plan.sections
SectionPlan(ids) == [ok |-> TRUE, mode |-> "", nodes |-> <<>>, sections |-> ids]

SectionFiles == {SectionPlan(<<"s1">>), SectionPlan(<<>>), Unreadable}

\* Object.values(PhaseType)
validTypes == {"plan", "scope", "design", "collect", "analyze", "synthesize", "review"}

\* expandPlanPhase: plan.nodes mapped to PhaseNode objects
PlanToNodes(plan) ==
  [k \in 1..Len(plan.nodes) |->
     NewNode(plan.nodes[k].id,
             IF plan.nodes[k].type \in validTypes THEN plan.nodes[k].type ELSE "scope",
             plan.nodes[k].dependsOn)]

\* expandSynthesizeSections: one node per section, then the compile node
SectionNodes(sections) ==
  [k \in 1..Len(sections) |-> NewNode("synthesize/" \o sections[k], "synthesize", <<>>)]
  \o << NewNode(CompileId, "synthesize",
                [k \in 1..Len(sections) |-> "synthesize/" \o sections[k]]) >>

\* this.config.maxParallelDockerContainers || 2  (0: not configured)
MaxParallelOf(c) == IF c = 0 THEN DefaultParallel ELSE c

(***************************************************************************)
(* Orchestrator state.                                                     *)
(***************************************************************************)
VARIABLES
  dag,                    \* this.dag
  execs,                  \* executions in flight, see NewExec
  pc,                     \* where the controller is
  mode,                   \* this.mode
  stateMode,              \* state.mode, the mode written to pipeline.json
  planExpanded,           \* this.planExpanded
  synthesisPlanExpanded,  \* this.synthesisPlanExpanded
  maxParallel,            \* maxParallel of executionLoop
  personaCount,           \* personaCount of expandCollectPhase
  pipelineJson,           \* pipeline.json in the workspace
  writing,                \* the JSON text savePipelineState last handed to writeFile
  manifestJson,           \* artifacts/manifest.json in the workspace
  artifactFiles,          \* the artifact files in the workspace, by relative path
  writeCalls,             \* the writeArtifact calls that have not returned yet
  planFile,               \* the plan node's output in the workspace
  sectionFile,            \* the synthesize/plan node's output in the workspace
  loop,                   \* maybeExpandDAG's loop while it is suspended
  raceWon,                \* a promise of the awaited race / all has settled
  restarts,               \* resume() calls so far
  dispatched,             \* history: what the tick just taken dispatched
  everCompleted,          \* history: ids seen Completed by this process
  justResumed,            \* history: resume() has returned to the loop, no tick yet
  addNodesCalls,          \* history: addNodes calls over the life of the run
  expandCalls,            \* history: expandNode calls per parent id, likewise
  everFailed,             \* history: ids seen Failed by this process
  last                    \* history: the call the step just taken made, see NoCall

vars == <<dag, execs, pc, mode, stateMode, planExpanded, synthesisPlanExpanded,
          maxParallel, personaCount, pipelineJson, writing, manifestJson, artifactFiles,
          writeCalls, planFile, sectionFile, loop, raceWon, restarts, dispatched, everCompleted, justResumed,
          addNodesCalls, expandCalls, everFailed, last>>

config == <<maxParallel, personaCount>>

\* the files the execution loop does not write, and the calls that write them
artifactStore == <<manifestJson, artifactFiles, writeCalls>>

(***************************************************************************)
(* An execution in flight: executeNode(node) with the .then callbacks of   *)
(* executionLoop.  tracked: its promise is the value stored under id in    *)
(* activeExecutions.  raced: its promise was handed to the Promise.race /  *)
(* Promise.all the controller is awaiting.                                 *)
(***************************************************************************)
NewExec(id) == [id |-> id, tracked |-> TRUE, raced |-> FALSE]

\* the keys of this.activeExecutions
activeExecutions(ex) == {e.id : e \in {x \in ex : x.tracked}}

\* this.activeExecutions.set(id, promise): a promise stored earlier is dropped
ActiveSet(ex, id) ==
  {[e EXCEPT !.tracked = (e.id # id) /\ e.tracked] : e \in ex} \cup {NewExec(id)}

\* this.activeExecutions.delete(id)
ActiveDelete(ex, id) ==
  {[e EXCEPT !.tracked = (e.id # id) /\ e.tracked] : e \in ex}

\* Promise.race / Promise.all over this.activeExecutions.values()
AwaitAll(ex) == {[e EXCEPT !.raced = e.tracked] : e \in ex}

CompletedIds(d) == {id \in DOMAIN d.nodes : d.nodes[id].status = COMPLETED}

FailedIds(d) == {id \in DOMAIN d.nodes : d.nodes[id].status = FAILED}

\* history of a step: op names the call, id its node, arg its status, text its
\* error text, kids the children handed to expandNode, ret the ids returned,
\* direct whether updateStatus was ever called on an expanded parent, n the
\* number of calls so far, saved the state handed to the last savePipelineState
\* while its document is in place, errors the list validate returned
NoCall ==
  [op |-> "", id |-> "", arg |-> "", text |-> "", kids |-> <<>>, ret |-> <<>>,
   direct |-> FALSE, n |-> 0, saved |-> [def |-> FALSE], errors |-> <<>>]

Call(op, id, arg, text) == [NoCall EXCEPT !.op = op, !.id = id, !.arg = arg, !.text = text]

\* a step of the controller: no call is recorded, Failed ids are remembered
Controller ==
  /\ last' = NoCall
  /\ everFailed' = everFailed \cup FailedIds(dag')

(***************************************************************************)
(* Files and JSON.  An optional property is Undefined or Def(v).           *)
(* JSON.stringify leaves out the properties whose value is undefined; the  *)
(* parsed document is an object that has only the properties written.  A   *)
(* file is absent, unparsable, or holds a document.                        *)
(***************************************************************************)
Undefined == [def |-> FALSE]

Def(v) == [def |-> TRUE, v |-> v]

\* the optional properties of Artifact and of PhaseNode
ArtifactOptional == {"createdAt"}

NodeOptional == {"startedAt", "completedAt", "error", "children"}

\* stringify that leaves out every optional property
JsonObject_DropsOptional(obj, optional) == [k \in DOMAIN obj \ optional |-> obj[k]]

\* JSON.stringify of a flat object
JsonObject(obj, optional) ==
  [k \in {key \in DOMAIN obj : key \notin optional \/ obj[key].def} |-> obj[k]]

\* obj.key of a parsed or live object
Read(obj, key) == IF key \in DOMAIN obj THEN obj[key] ELSE Undefined

\* JSON.stringify of a PhaseNode, children nested
RECURSIVE JsonPhaseNode(_)
JsonPhaseNode(n) ==
  JsonObject(
    [k \in DOMAIN n |->
       IF k = "children" /\ n[k].def
         THEN Def([i \in 1..Len(n[k].v) |-> JsonPhaseNode(n[k].v[i])])
         ELSE n[k]],
    NodeOptional)

\* JSON.stringify(state, null, 2)
JsonPipelineState(state) ==
  [projectId |-> state.projectId, mode |-> state.mode, inputType |-> state.inputType,
   createdAt |-> state.createdAt, updatedAt |-> state.updatedAt,
   nodes |-> [i \in 1..Len(state.nodes) |-> JsonPhaseNode(state.nodes[i])],
   artifacts |-> [i \in 1..Len(state.artifacts) |->
                    JsonObject(state.artifacts[i], ArtifactOptional)]]

\* JSON.stringify(manifest, null, 2)
JsonManifest(manifest) ==
  [projectId |-> manifest.projectId, updatedAt |-> manifest.updatedAt,
   artifacts |-> [i \in 1..Len(manifest.artifacts) |->
                    JsonObject(manifest.artifacts[i], ArtifactOptional)]]

NoFile == [exists |-> FALSE, valid |-> FALSE]

Garbage == [exists |-> TRUE, valid |-> FALSE]

FileOf(doc) == [exists |-> TRUE, valid |-> TRUE, doc |-> doc]

\* fs.promises.readFile(filePath, 'utf8')
readFile(file) == [threw |-> ~file.exists, content |-> file]

\* JSON.parse(content)
JSONparse(content) ==
  IF content.valid THEN [threw |-> FALSE, value |-> content.doc] ELSE [threw |-> TRUE]

\* savePipelineState(state) at time now: the file it leaves
savePipelineState(state, now) ==
  FileOf(JsonPipelineState([state EXCEPT !.updatedAt = now]))

\* the load without the catch
loadPipelineState_NoCatch(file) ==
  IF readFile(file).threw THEN [threw |-> TRUE, null |-> FALSE]
  ELSE IF JSONparse(readFile(file).content).threw THEN [threw |-> TRUE, null |-> FALSE]
  ELSE [threw |-> FALSE, null |-> FALSE,
        state |-> JSONparse(readFile(file).content).value]

\* loadPipelineState(): threw tells whether it throws, null whether it
\* returns null
loadPipelineState(file) ==
  IF readFile(file).threw THEN [threw |-> FALSE, null |-> TRUE]
  ELSE IF JSONparse(readFile(file).content).threw THEN [threw |-> FALSE, null |-> TRUE]
  ELSE [threw |-> FALSE, null |-> FALSE,
        state |-> JSONparse(readFile(file).content).value]

ProjectId == "hci-1"

\* loadManifest() at time now
loadManifest(file, now) ==
  IF readFile(file).threw \/ JSONparse(readFile(file).content).threw
    THEN [projectId |-> ProjectId, artifacts |-> <<>>, updatedAt |-> now]
    ELSE JSONparse(readFile(file).content).value

\* manifest.artifacts.findIndex((a) => a.id === id), 0 for -1
FindIndex(artifacts, id) ==
  IF \E k \in 1..Len(artifacts) : artifacts[k].id = id
    THEN CHOOSE k \in 1..Len(artifacts) :
           artifacts[k].id = id /\ \A j \in 1..(k - 1) : artifacts[j].id # id
    ELSE 0

\* the registration that always pushes
addToManifest_AlwaysPush(file, artifact, now) ==
  LET manifest == loadManifest(file, now)
  IN FileOf(JsonManifest([projectId |-> manifest.projectId,
                          artifacts |-> Append(manifest.artifacts, artifact),
                          updatedAt |-> now]))

\* addToManifest(artifact) at time now: the manifest file it leaves
addToManifest(file, artifact, now) ==
  LET manifest == loadManifest(file, now)
      existing == FindIndex(manifest.artifacts, artifact.id)
      artifacts == IF existing > 0
                     THEN [manifest.artifacts EXCEPT ![existing] = artifact]
                     ELSE Append(manifest.artifacts, artifact)
  IN FileOf(JsonManifest([projectId |-> manifest.projectId, artifacts |-> artifacts,
                          updatedAt |-> now]))

\* writeFile(fullPath, content)
writeFile(files, path, content) ==
  [f \in DOMAIN files \cup {path} |-> IF f = path THEN content ELSE files[f]]

\* the artifact object after writeArtifact has stamped it
Stamped(artifact, now) == [artifact EXCEPT !.createdAt = Def(now)]

\* run(): the input metadata artifact
InputMeta ==
  [id |-> "input/meta", type |-> "raw_data", format |-> "json", path |-> "input/meta.json",
   producedBy |-> "system", createdAt |-> Undefined]

(***************************************************************************)
(* savePipelineState / loadPipelineState: JSON.stringify(state) writes the *)
(* node objects as an array; resume() rebuilds the map from that array.    *)
(***************************************************************************)
Stringify(m, d) == [mode |-> m, nodes |-> getAllNodes(d)]

\* the reset that leaves startedAt in place
ResetRunning_KeepStart(ns) ==
  [k \in 1..Len(ns) |->
     IF ns[k].status = RUNNING THEN [ns[k] EXCEPT !.status = PENDING] ELSE ns[k]]

\* resume(): "Reset any RUNNING nodes back to PENDING"
ResetRunning(ns) ==
  [k \in 1..Len(ns) |->
     IF ns[k].status = RUNNING
       THEN [ns[k] EXCEPT !.status = PENDING, !.startedAt = FALSE]
       ELSE ns[k]]

(***************************************************************************)
(* The batch loop of executionLoop: each node of the batch is marked       *)
(* RUNNING, then handed to executeNode.  The history entry records what    *)
(* held of the node at that moment.                                        *)
(***************************************************************************)
DispatchEntry(d, id, seen) ==
  [id |-> id,
   wasPending |-> d.nodes[id].status = PENDING,
   depsDone |-> AllDepsCompleted(d, id),
   wasCompleted |-> id \in seen,
   wasExpanded |-> d.nodes[id].hasChildren]

RECURSIVE DispatchBatch(_, _, _, _, _)
DispatchBatch(d, ex, batch, log, seen) ==
  IF batch = <<>> THEN [dag |-> d, execs |-> ex, log |-> log]
  ELSE LET id == Head(batch)
       IN DispatchBatch(updateStatus(d, id, RUNNING, ""),
                        ActiveSet(ex, id),
                        Tail(batch),
                        log \cup {DispatchEntry(d, id, seen)},
                        seen)

(***************************************************************************)
(* maybeExpandDAG.  The loop runs over the array getAllNodes() returned    *)
(* when it started: the node objects of that moment.  An entry is live     *)
(* while its object is still the one in the map; when addNodes or          *)
(* expandNode stores another object under the id, the entry keeps the      *)
(* status and type the old object had.                                     *)
(***************************************************************************)
TakeSnapshot(d) ==
  [k \in 1..Len(d.order) |-> [id |-> d.order[k], live |-> TRUE, status |-> "", type |-> ""]]

Freeze(snap, ids, d) ==
  [k \in 1..Len(snap) |->
     IF snap[k].live /\ snap[k].id \in ids
       THEN [id |-> snap[k].id, live |-> FALSE,
             status |-> d.nodes[snap[k].id].status, type |-> d.nodes[snap[k].id].type]
       ELSE snap[k]]

EntryStatus(d, e) == IF e.live THEN d.nodes[e.id].status ELSE e.status
EntryType(d, e) == IF e.live THEN d.nodes[e.id].type ELSE e.type

NodeIds(ns) == {ns[k].id : k \in 1..Len(ns)}

\* the guard of the COLLECT expansion
CollectExpandable(d) ==
  /\ Has(d, CollectId)
  /\ d.nodes[CollectId].status = PENDING
  /\ ~d.nodes[CollectId].hasChildren
  /\ AllDepsCompleted(d, CollectId)

\* the guard of the SYNTHESIZE expansion
SynthExpandable(d) == Has(d, SynthId) /\ d.nodes[SynthId].status = PENDING

Bump(calls, id) ==
  [x \in (DOMAIN calls) \cup {id} |->
     IF x = id THEN (IF id \in DOMAIN calls THEN calls[id] + 1 ELSE 1) ELSE calls[x]]

\* expandCollectPhase
expandCollectPhase(g, n) ==
  [g EXCEPT !.dag = expandNode(g.dag, CollectId, generatePersonaNodes(n)),
            !.expandCalls = Bump(g.expandCalls, CollectId)]

(***************************************************************************)
(* The loop from entry i on, until it ends ("end") or suspends at the      *)
(* readFile of expandPlanPhase ("planIO") or of expandSynthesizeSections   *)
(* ("synthIO").  stage "a" is the top of an iteration, "b" the point after *)
(* the plan branch, "c" the point after the collect branch.                *)
(***************************************************************************)
RECURSIVE maybeExpandFrom(_, _, _, _, _)
maybeExpandFrom(g, snap, i, stage, n) ==
  IF i > Len(snap) THEN [g |-> g, snap |-> snap, i |-> i, at |-> "end"]
  ELSE
    LET e == snap[i] IN
    IF stage = "a" THEN
      IF EntryStatus(g.dag, e) # COMPLETED THEN maybeExpandFrom(g, snap, i + 1, "a", n)
      ELSE IF e.id = PlanId /\ ~g.planExpanded
        THEN [g |-> g, snap |-> snap, i |-> i, at |-> "planIO"]
      ELSE maybeExpandFrom(g, snap, i, "b", n)
    ELSE IF stage = "b" THEN
      IF EntryType(g.dag, e) = "design" /\ g.mode = SIMULATED /\ CollectExpandable(g.dag)
        THEN maybeExpandFrom(expandCollectPhase(g, n),
                             Freeze(snap, NodeIds(generatePersonaNodes(n)), g.dag),
                             i, "c", n)
        ELSE maybeExpandFrom(g, snap, i, "c", n)
    ELSE
      IF e.id = SynthPlanId /\ ~g.synthesisPlanExpanded /\ SynthExpandable(g.dag)
        THEN [g |-> g, snap |-> snap, i |-> i, at |-> "synthIO"]
        ELSE maybeExpandFrom(g, snap, i + 1, "a", n)

\* the orchestrator fields maybeExpandDAG reads and writes
Fields ==
  [dag |-> dag, mode |-> mode, planExpanded |-> planExpanded,
   synthesisPlanExpanded |-> synthesisPlanExpanded, expandCalls |-> expandCalls]

NoLoop == [snap |-> <<>>, i |-> 0]

(***************************************************************************)
(* What follows maybeExpandDAG's synchronous stretch r: either it is       *)
(* suspended at a readFile, or it has returned and the loop body goes on   *)
(* to state.nodes = getAllNodes(); savePipelineState(state), which         *)
(* stringifies the state before its own await.                             *)
(***************************************************************************)
AfterExpand(r) ==
  /\ dag' = r.g.dag
  /\ mode' = r.g.mode
  /\ planExpanded' = r.g.planExpanded
  /\ synthesisPlanExpanded' = r.g.synthesisPlanExpanded
  /\ expandCalls' = r.g.expandCalls
  /\ everCompleted' = everCompleted \cup CompletedIds(r.g.dag)
  /\ UNCHANGED pipelineJson
  /\ IF r.at = "end"
       THEN /\ pc' = "save"
            /\ loop' = NoLoop
            /\ writing' = Stringify(stateMode, r.g.dag)
       ELSE /\ pc' = r.at
            /\ loop' = [snap |-> r.snap, i |-> r.i]
            /\ UNCHANGED writing

(***************************************************************************)
(* Init: run() has analysed the input, built the initial DAG (the PLAN     *)
(* node alone), validated it and saved the initial state; it is about to   *)
(* enter executionLoop.                                                    *)
(***************************************************************************)
buildInitialDAG == << NewNode(PlanId, "plan", <<>>) >>

Init ==
  /\ dag = NewDAG(buildInitialDAG)
  /\ execs = {}
  /\ pc = "top"
  /\ mode \in {SIMULATED, REAL_DATA}
  /\ stateMode = mode
  /\ planExpanded = FALSE
  /\ synthesisPlanExpanded = FALSE
  /\ maxParallel \in {MaxParallelOf(c) : c \in 0..MaxParallelism}
  /\ personaCount \in 1..MaxPersonas
  /\ pipelineJson = Stringify(mode, dag)
  /\ writing = pipelineJson
  /\ planFile = Unreadable
  /\ sectionFile = Unreadable
  /\ loop = NoLoop
  /\ raceWon = FALSE
  /\ restarts = 0
  /\ dispatched = {}
  /\ everCompleted = {}
  /\ justResumed = FALSE
  /\ addNodesCalls = 0
  /\ expandCalls = <<>>
  /\ everFailed = {}
  /\ last = NoCall
  /\ manifestJson = addToManifest(NoFile, Stamped(InputMeta, 0), 0)
  /\ artifactFiles = writeFile(<<>>, InputMeta.path, "detection")
  /\ writeCalls = {}

(***************************************************************************)
(* executionLoop, from the loop test to the first await.                   *)
(***************************************************************************)
\* while (!isComplete()) ends; Promise.all over what is still registered
Finish ==
  /\ pc = "top"
  /\ isComplete(dag)
  /\ IF activeExecutions(execs) # {}
       THEN pc' = "drain" /\ execs' = AwaitAll(execs) /\ raceWon' = FALSE
       ELSE pc' = "done" /\ UNCHANGED <<execs, raceWon>>
  /\ dispatched' = {}
  /\ justResumed' = FALSE
  /\ UNCHANGED <<dag, mode, stateMode, planExpanded, synthesisPlanExpanded, config, artifactStore,
                 pipelineJson, writing, planFile, sectionFile, loop, restarts, everCompleted,
                 addNodesCalls, expandCalls>>
  /\ Controller

\* what the message of the stuck error holds: the counts it interpolates
StuckError(summary) ==
  [pending |-> summary.pending, failed |-> summary.failed, running |-> summary.running]

\* if (this.dag.isStuck()) throw new Error('Pipeline stuck: ...')
ThrowStuck ==
  /\ pc = "top"
  /\ ~isComplete(dag)
  /\ isStuck(dag)
  /\ pc' = "stuck"
  /\ dispatched' = {}
  /\ justResumed' = FALSE
  /\ UNCHANGED <<dag, execs, mode, stateMode, planExpanded, synthesisPlanExpanded,
                 config, artifactStore, pipelineJson, writing, planFile, sectionFile, loop, raceWon, restarts,
                 everCompleted, addNodesCalls, expandCalls>>
  /\ last' = [NoCall EXCEPT !.op = "stuck", !.ret = StuckError(getSummary(dag))]
  /\ everFailed' = everFailed \cup FailedIds(dag')

\* the batch is launched, then the loop awaits the race or the 500 ms timer
Tick ==
  /\ pc = "top"
  /\ ~isComplete(dag)
  /\ ~isStuck(dag)
  /\ LET readyNodes == getReadyNodes(dag)
         slotsAvailable == maxParallel - Cardinality(activeExecutions(execs))
         batch == SliceTo(readyNodes, slotsAvailable)
         r == DispatchBatch(dag, execs, batch, {}, everCompleted)
     IN /\ dag' = r.dag
        /\ dispatched' = r.log
        /\ everCompleted' = everCompleted \cup CompletedIds(r.dag)
        /\ IF activeExecutions(r.execs) # {}
             THEN pc' = "wait" /\ execs' = AwaitAll(r.execs)
             ELSE pc' = "sleep" /\ execs' = r.execs
  /\ raceWon' = FALSE
  /\ justResumed' = FALSE
  /\ UNCHANGED <<mode, stateMode, planExpanded, synthesisPlanExpanded, config, artifactStore,
                 pipelineJson, writing, planFile, sectionFile, loop, restarts,
                 addNodesCalls, expandCalls>>
  /\ Controller

(***************************************************************************)
(* A dispatched execution settles: the .then callback applies the outcome  *)
(* to the graph and unregisters the id.  It runs only while the controller *)
(* is suspended.  The planning nodes leave their output file behind.       *)
(***************************************************************************)
Suspended == {"wait", "sleep", "planIO", "synthIO", "save", "drain"}

Settle(e, outcome) ==
  /\ pc \in Suspended
  /\ e \in execs
  /\ dag' = updateStatus(dag, e.id, outcome, IF outcome = FAILED THEN "exec" ELSE "")
  /\ execs' = ActiveDelete(execs \ {e}, e.id)
  /\ raceWon' = (raceWon \/ e.raced)
  /\ planFile' \in (IF e.id = PlanId /\ outcome = COMPLETED THEN PlanFiles ELSE {planFile})
  /\ sectionFile' \in
       (IF e.id = SynthPlanId /\ outcome = COMPLETED THEN SectionFiles ELSE {sectionFile})
  /\ everCompleted' = everCompleted \cup CompletedIds(dag')
  /\ dispatched' = {}
  /\ UNCHANGED <<pc, mode, stateMode, planExpanded, synthesisPlanExpanded, config, artifactStore,
                 pipelineJson, writing, loop, restarts, justResumed, addNodesCalls, expandCalls>>
  /\ last' = Call("settle", e.id, outcome, IF outcome = FAILED THEN "exec" ELSE "")
  /\ everFailed' = everFailed \cup FailedIds(dag')

(***************************************************************************)
(* The await of the loop body returns and maybeExpandDAG starts.           *)
(***************************************************************************)
ClearRaced(ex) == {[e EXCEPT !.raced = FALSE] : e \in ex}

\* await Promise.race(this.activeExecutions.values())
RaceWakes ==
  /\ pc = "wait"
  /\ raceWon
  /\ AfterExpand(maybeExpandFrom(Fields, TakeSnapshot(dag), 1, "a", personaCount))
  /\ execs' = ClearRaced(execs)
  /\ raceWon' = FALSE
  /\ dispatched' = {}
  /\ UNCHANGED <<stateMode, config, artifactStore, planFile, sectionFile, restarts, justResumed,
                 addNodesCalls>>
  /\ Controller

\* await new Promise((resolve) => setTimeout(resolve, 500))
TimerWakes ==
  /\ pc = "sleep"
  /\ AfterExpand(maybeExpandFrom(Fields, TakeSnapshot(dag), 1, "a", personaCount))
  /\ dispatched' = {}
  /\ UNCHANGED <<execs, raceWon, stateMode, config, artifactStore, planFile, sectionFile, restarts,
                 justResumed, addNodesCalls>>
  /\ Controller

(***************************************************************************)
(* expandPlanPhase after its readFile.                                     *)
(***************************************************************************)
\* neither pipeline_plan.json nor result.json can be read and parsed
PlanReadFails ==
  /\ pc = "planIO"
  /\ ~planFile.ok
  /\ pc' = "failed"
  /\ loop' = NoLoop
  /\ dispatched' = {}
  /\ UNCHANGED <<dag, execs, mode, stateMode, planExpanded, synthesisPlanExpanded,
                 config, artifactStore, pipelineJson, writing, planFile, sectionFile, raceWon, restarts,
                 everCompleted, justResumed, addNodesCalls, expandCalls>>
  /\ Controller

\* inputClassification.mode === 'B' ? REAL_DATA : SIMULATED
PlanMode(plan, m) ==
  IF plan.mode = "" THEN m ELSE IF plan.mode = "B" THEN REAL_DATA ELSE SIMULATED

PlanRead ==
  /\ pc = "planIO"
  /\ planFile.ok
  /\ LET newNodes == PlanToNodes(planFile)
         g1 == [Fields EXCEPT !.mode = PlanMode(planFile, mode),
                              !.dag = addNodes(dag, newNodes),
                              !.planExpanded = TRUE]
         snap1 == Freeze(loop.snap, NodeIds(newNodes), dag)
     IN AfterExpand(maybeExpandFrom(g1, snap1, loop.i, "b", personaCount))
  /\ addNodesCalls' = addNodesCalls + 1
  /\ dispatched' = {}
  /\ UNCHANGED <<execs, raceWon, stateMode, config, artifactStore, planFile, sectionFile, restarts,
                 justResumed>>
  /\ Controller

(***************************************************************************)
(* expandSynthesizeSections after its readFile.                            *)
(***************************************************************************)
SectionReadFails ==
  /\ pc = "synthIO"
  /\ ~sectionFile.ok
  /\ pc' = "failed"
  /\ loop' = NoLoop
  /\ dispatched' = {}
  /\ UNCHANGED <<dag, execs, mode, stateMode, planExpanded, synthesisPlanExpanded,
                 config, artifactStore, pipelineJson, writing, planFile, sectionFile, raceWon, restarts,
                 everCompleted, justResumed, addNodesCalls, expandCalls>>
  /\ Controller

SectionRead ==
  /\ pc = "synthIO"
  /\ sectionFile.ok
  /\ LET sectionNodes == SectionNodes(sectionFile.sections)
         g1 == [Fields EXCEPT !.dag = expandNode(dag, SynthId, sectionNodes),
                              !.synthesisPlanExpanded = TRUE,
                              !.expandCalls = Bump(expandCalls, SynthId)]
         snap1 == Freeze(loop.snap, NodeIds(sectionNodes), dag)
     IN AfterExpand(maybeExpandFrom(g1, snap1, loop.i + 1, "a", personaCount))
  /\ dispatched' = {}
  /\ UNCHANGED <<execs, raceWon, stateMode, config, artifactStore, planFile, sectionFile, restarts,
                 justResumed, addNodesCalls>>
  /\ Controller

\* await this.workspace.savePipelineState(state) returns; back to the loop test
SaveDone ==
  /\ pc = "save"
  /\ pipelineJson' = writing
  /\ pc' = "top"
  /\ dispatched' = {}
  /\ UNCHANGED <<dag, execs, mode, stateMode, planExpanded, synthesisPlanExpanded,
                 config, artifactStore, writing, planFile, sectionFile, loop, raceWon, restarts,
                 everCompleted, justResumed, addNodesCalls, expandCalls>>
  /\ Controller

\* await Promise.all(this.activeExecutions.values()) returns
DrainDone ==
  /\ pc = "drain"
  /\ \A e \in execs : ~e.raced
  /\ pc' = "done"
  /\ dispatched' = {}
  /\ UNCHANGED <<dag, execs, mode, stateMode, planExpanded, synthesisPlanExpanded,
                 config, artifactStore, pipelineJson, writing, planFile, sectionFile, loop, raceWon, restarts,
                 everCompleted, justResumed, addNodesCalls, expandCalls>>
  /\ Controller

(***************************************************************************)
(* resume(projectId) by a fresh process, whatever became of the previous   *)
(* one (it crashed, was killed, returned or threw): everything in memory   *)
(* is gone, pipeline.json and the output files are what remains.           *)
(***************************************************************************)
Resume ==
  /\ restarts < MaxRestarts
  /\ LET state == pipelineJson
         d == NewDAG(ResetRunning(state.nodes))
     IN /\ dag' = d
        /\ mode' = state.mode
        /\ stateMode' = state.mode
        /\ planExpanded' = (Has(d, PlanId) /\ d.nodes[PlanId].status = COMPLETED)
        /\ synthesisPlanExpanded' =
             /\ Has(d, SynthPlanId) /\ d.nodes[SynthPlanId].status = COMPLETED
             /\ Has(d, SynthId) /\ d.nodes[SynthId].hasChildren
        /\ everCompleted' = CompletedIds(d)
  /\ execs' = {}
  /\ pc' = "top"
  /\ loop' = NoLoop
  /\ raceWon' = FALSE
  /\ restarts' = restarts + 1
  /\ writing' = pipelineJson
  /\ dispatched' = {}
  /\ justResumed' = TRUE
  /\ UNCHANGED <<config, artifactStore, pipelineJson, planFile, sectionFile, addNodesCalls, expandCalls>>
  /\ last' = NoCall
  /\ everFailed' = FailedIds(dag')

Next ==
  \/ Finish
  \/ ThrowStuck
  \/ Tick
  \/ \E e \in execs : \E outcome \in {COMPLETED, FAILED} : Settle(e, outcome)
  \/ RaceWakes
  \/ TimerWakes
  \/ PlanReadFails
  \/ PlanRead
  \/ SectionReadFails
  \/ SectionRead
  \/ SaveDone
  \/ DrainDone
  \/ Resume

Spec == Init /\ [][Next]_vars

(***************************************************************************)
(* WorkspaceManager paths.  A path is the sequence of its segments below   *)
(* rootPath; NoPath stands for null.                                       *)
(***************************************************************************)
\* the ids that occur, as lists of segments
PersonaSegments == {"persona-001", "persona-002", "persona-003"}

TwoSegmentIds ==
  ({"collect", "synthesize", "analyze", "design", "scope", "A", "X", "D", "c2"}
     \cup PersonaSegments)
  \X {"aggregate", "plan", "compile", "s1", "desc-1", "data", "raw_data", "study_protocol",
      "questionnaire", "research_plan", "profile", "context", "experience", "response"}

ThreeSegmentIds ==
  {"collect"} \X PersonaSegments \X {"context", "experience", "participate", "response"}

\* parts.join('/')
Join(parts) ==
  IF Len(parts) = 2 THEN parts[1] \o "/" \o parts[2]
  ELSE parts[1] \o "/" \o parts[2] \o "/" \o parts[3]

\* the segments of every id that has more than one
SplitTable ==
  [id \in {Join(parts) : parts \in TwoSegmentIds \cup ThreeSegmentIds} |->
     CHOOSE parts \in TwoSegmentIds \cup ThreeSegmentIds : Join(parts) = id]

\* id.split('/')
Split(id) == IF id \in DOMAIN SplitTable THEN SplitTable[id] ELSE <<id>>

\* segment.startsWith('persona-')
IsPersona(segment) == segment \in PersonaSegments

NoPath == <<>>

getNodeWorkDir(nodeId) ==
  LET parts == Split(nodeId) IN
  IF Len(parts) = 1 THEN <<"phases", parts[1]>>
  ELSE IF parts[1] = "collect" /\ IsPersona(parts[2])
    THEN <<"phases", "collect", "personas", parts[2]>>
  ELSE IF parts[1] = "analyze" THEN <<"phases", "analyze", "scripts">> \o Tail(parts)
  ELSE IF parts[1] = "synthesize" THEN <<"phases", "synthesize", "sections">> \o Tail(parts)
  ELSE <<"phases">> \o parts

getOutputDir(nodeId) ==
  LET workDir == getNodeWorkDir(nodeId)
      parts == Split(nodeId)
  IN IF Len(parts) >= 2 /\ parts[1] = "collect" /\ IsPersona(parts[2]) THEN workDir
     ELSE IF Len(parts) = 1 THEN workDir \o <<"output">>
     ELSE workDir

resolveArtifactPath(artifactId) ==
  LET parts == Split(artifactId) IN
  IF IsPersona(parts[1]) THEN <<"phases", "collect", "personas", parts[1]>>
  ELSE IF Len(parts) = 2 THEN <<"phases", parts[1], "output">>
  ELSE NoPath

\* getReadablePaths(node): the deduplicated list, as a set
getReadablePaths(node) ==
  {<<"input">>}
  \cup ({resolveArtifactPath(node.inputArtifacts[k]) : k \in 1..Len(node.inputArtifacts)} \ {NoPath})
  \cup {getOutputDir(node.dependsOn[k]) : k \in 1..Len(node.dependsOn)}

\* the inputArtifacts generatePersonaNodes gives its nodes; [] for the plan
\* node and for what the modelled plans list
PersonaArtifacts(i, names) ==
  [k \in 1..Len(names) |->
     IF names[k] \in {"profile", "context", "experience"}
       THEN "persona-" \o Pad3(i) \o "/" \o names[k]
       ELSE "design/" \o names[k]]

inputArtifactsOf(id) ==
  IF \E i \in 1..3 : id = PersonaNodeId(i, "context")
    THEN <<"design/study_protocol", "design/questionnaire">>
  ELSE IF \E i \in 1..3 : id = PersonaNodeId(i, "experience")
    THEN PersonaArtifacts(CHOOSE i \in 1..3 : id = PersonaNodeId(i, "experience"),
                          <<"profile", "context", "study_protocol">>)
  ELSE IF \E i \in 1..3 : id = PersonaNodeId(i, "participate")
    THEN PersonaArtifacts(CHOOSE i \in 1..3 : id = PersonaNodeId(i, "participate"),
                          <<"profile", "context", "experience", "study_protocol",
                            "questionnaire">>)
  ELSE <<>>

\* the inputArtifacts a node may declare
ArtifactLists ==
  { <<>>, <<"X/data">>, <<"A/data">>, <<"persona-001/profile">>, <<"X">>,
    <<"c2/data", "X/data">> }

(***************************************************************************)
(* The DAG class on its own: a caller that holds a graph and calls         *)
(* updateStatus, expandNode and getReadyNodes in any order.                *)
(***************************************************************************)
\* A(deps: []), X(deps: [A]), D(deps: [X, A, X])
GraphChain ==
  NewDAG(<< NewNode("A", "scope", <<>>),
            NewNode("X", "collect", <<"A">>),
            NewNode("D", "analyze", <<"X", "A", "X">>) >>)

\* A(deps: []), D(deps: [ghost]) where no node has the id ghost
GraphDangling ==
  NewDAG(<< NewNode("A", "scope", <<>>),
            NewNode("D", "analyze", <<"ghost">>) >>)

Graphs == {GraphChain, GraphDangling}

\* the children handed to expandNode: [c1(deps: []), c2(deps: [c1])], or c2 alone
ChildLists ==
  { << NewNode("c1", "collect", <<>>), NewNode("c2", "collect", <<"c1">>) >>,
    << NewNode("c2", "collect", <<>>) >> }

Statuses == {PENDING, RUNNING, COMPLETED, FAILED, SKIPPED}

orchestrator == <<execs, pc, mode, stateMode, planExpanded, synthesisPlanExpanded,
                  maxParallel, personaCount, pipelineJson, writing, manifestJson,
                  artifactFiles, writeCalls, planFile, sectionFile, loop, raceWon, restarts, dispatched, everCompleted,
                  justResumed, addNodesCalls, expandCalls, everFailed>>

\* no orchestrator runs: its fields keep their constructor values
OrchestratorIdle ==
  /\ execs = {}
  /\ pc = "api"
  /\ mode = SIMULATED
  /\ stateMode = SIMULATED
  /\ planExpanded = FALSE
  /\ synthesisPlanExpanded = FALSE
  /\ maxParallel = DefaultParallel
  /\ personaCount = 1
  /\ planFile = Unreadable
  /\ sectionFile = Unreadable
  /\ loop = NoLoop
  /\ raceWon = FALSE
  /\ restarts = 0
  /\ dispatched = {}
  /\ everCompleted = {}
  /\ justResumed = FALSE
  /\ addNodesCalls = 0
  /\ expandCalls = <<>>
  /\ everFailed = {}

\* a workspace nothing has been written to
NoWorkspace ==
  /\ pipelineJson = NoFile
  /\ writing = pipelineJson
  /\ manifestJson = NoFile
  /\ artifactFiles = <<>>
  /\ writeCalls = {}

DagInit ==
  /\ dag \in Graphs
  /\ last = NoCall
  /\ OrchestratorIdle
  /\ NoWorkspace

\* dag.updateStatus(id, status, error)
DagUpdateStatus(id, status) ==
  /\ last.n < MaxCalls
  /\ Has(dag, id)
  /\ LET error == IF status = FAILED THEN "exec" ELSE ""
     IN /\ dag' = updateStatus(dag, id, status, error)
        /\ last' = [NoCall EXCEPT !.op = "updateStatus", !.id = id, !.arg = status,
                                  !.text = error,
                                  !.direct = last.direct \/ dag.nodes[id].hasChildren,
                                  !.n = last.n + 1]
  /\ UNCHANGED orchestrator

\* dag.expandNode(parentId, children), once per graph
DagExpandNode(parentId, children) ==
  /\ last.n < MaxCalls
  /\ Has(dag, parentId)
  /\ \A id \in DOMAIN dag.nodes : ~dag.nodes[id].hasChildren
  /\ dag' = expandNode(dag, parentId, children)
  /\ last' = [NoCall EXCEPT !.op = "expandNode", !.id = parentId, !.kids = children,
                            !.n = last.n + 1]
  /\ UNCHANGED orchestrator

\* dag.getReadyNodes()
DagGetReadyNodes ==
  /\ last.n < MaxCalls
  /\ dag' = dag
  /\ last' = [NoCall EXCEPT !.op = "getReadyNodes", !.ret = getReadyNodes(dag),
                            !.direct = last.direct, !.n = last.n + 1]
  /\ UNCHANGED orchestrator

DagNext ==
  \/ \E id \in DOMAIN dag.nodes : \E status \in Statuses : DagUpdateStatus(id, status)
  \/ \E parentId \in DOMAIN dag.nodes : \E children \in ChildLists :
       DagExpandNode(parentId, children)
  \/ DagGetReadyNodes

SpecDag == DagInit /\ [][DagNext]_vars

(***************************************************************************)
(* The same caller, who may also call expandNode on a parent that has      *)
(* children already.                                                       *)
(***************************************************************************)
\* the children of a second expansion: the lists above, or c3 alone
ChildListsAgain == ChildLists \cup { << NewNode("c3", "collect", <<>>) >> }

\* dag.expandNode(parentId, children) on an expanded parent
DagExpandNodeAgain(parentId, children) ==
  /\ last.n < MaxCalls
  /\ Has(dag, parentId)
  /\ dag.nodes[parentId].hasChildren
  /\ dag' = expandNode(dag, parentId, children)
  /\ last' = [NoCall EXCEPT !.op = "expandNode", !.id = parentId, !.kids = children,
                            !.n = last.n + 1]
  /\ UNCHANGED orchestrator

\* ids that may or may not be in the map when the call is made
CallIds == {"ghost", "c1", "c3"}

\* dag.updateStatus(id, status, error) with an id the map does not have
DagUpdateStatusMissing(id, status) ==
  /\ last.n < MaxCalls
  /\ ~Has(dag, id)
  /\ LET r == updateStatusOrThrow(dag, id, status, IF status = FAILED THEN "exec" ELSE "")
     IN /\ dag' = r.dag
        /\ last' = [NoCall EXCEPT !.op = IF r.threw THEN "threw" ELSE "updateStatus",
                                  !.id = id, !.text = "updateStatus",
                                  !.direct = last.direct, !.n = last.n + 1]
  /\ UNCHANGED orchestrator

\* dag.expandNode(parentId, children) with a parentId the map does not have
DagExpandNodeMissing(parentId, children) ==
  /\ last.n < MaxCalls
  /\ ~Has(dag, parentId)
  /\ LET r == expandNodeOrThrow(dag, parentId, children)
     IN /\ dag' = r.dag
        /\ last' = [NoCall EXCEPT !.op = IF r.threw THEN "threw" ELSE "expandNode",
                                  !.id = parentId, !.text = "expandNode",
                                  !.kids = children,
                                  !.direct = last.direct, !.n = last.n + 1]
  /\ UNCHANGED orchestrator

DagAgainNext ==
  \/ DagNext
  \/ \E parentId \in DOMAIN dag.nodes : \E children \in ChildListsAgain :
       DagExpandNodeAgain(parentId, children)
  \/ \E id \in CallIds : \E status \in Statuses : DagUpdateStatusMissing(id, status)
  \/ \E parentId \in CallIds : \E children \in ChildListsAgain :
       DagExpandNodeMissing(parentId, children)

SpecDagAgain == DagInit /\ [][DagAgainNext]_vars

(***************************************************************************)
(* validate and getTopologicalOrder on every graph of up to three nodes    *)
(* whose dependsOn lists hold up to MaxDeps ids, missing ids included.     *)
(***************************************************************************)
GraphIds == <<"A", "X", "D">>

DepIds == {"A", "X", "D", "ghost"}

DepLists == UNION {[1..n -> DepIds] : n \in 0..MaxDeps}

GraphInputs ==
  {NewDAG([k \in 1..n |-> NewNode(GraphIds[k], "scope", deps[k])]) :
     n \in 0..Len(GraphIds), deps \in [1..Len(GraphIds) -> DepLists]}

GraphInit ==
  /\ dag \in GraphInputs
  /\ last = NoCall
  /\ OrchestratorIdle
  /\ NoWorkspace

\* dag.validate()
GraphValidate ==
  /\ dag' = dag
  /\ last' = [NoCall EXCEPT !.op = "validate", !.ret = validate(dag),
                            !.text = detectCycle(dag), !.errors = validateErrors(dag)]
  /\ UNCHANGED orchestrator

\* dag.getTopologicalOrder()
GraphGetTopologicalOrder ==
  /\ dag' = dag
  /\ last' = [NoCall EXCEPT !.op = "getTopologicalOrder", !.ret = getTopologicalOrder(dag)]
  /\ UNCHANGED orchestrator

GraphNext ==
  \/ GraphValidate
  \/ GraphGetTopologicalOrder

SpecGraph == GraphInit /\ [][GraphNext]_vars

(***************************************************************************)
(* WorkspaceManager called directly: savePipelineState, loadPipelineState  *)
(* and writeArtifact, one call after another, on a workspace whose         *)
(* pipeline.json may also be removed or left truncated.                    *)
(***************************************************************************)
\* the node object the program holds for a node of the graph
RECURSIVE ToJs(_, _)
ToJs(d, n) ==
  [id |-> n.id, type |-> n.type, dependsOn |-> n.dependsOn, status |-> n.status,
   startedAt |-> IF n.startedAt THEN Def(1) ELSE Undefined,
   completedAt |-> IF n.completedAt THEN Def(1) ELSE Undefined,
   error |-> IF n.error # "" THEN Def(n.error) ELSE Undefined,
   children |-> IF n.hasChildren
                  THEN Def([k \in 1..Len(n.children) |-> ToJs(d, d.nodes[n.children[k]])])
                  ELSE Undefined]

\* this.dag.getAllNodes() as node objects
JsNodes(d) == [k \in 1..Len(d.order) |-> ToJs(d, d.nodes[d.order[k]])]

\* graphs a run passes through: before the first step, and after an expansion
\* whose first child has failed and whose last child is running
GraphExpanded ==
  updateStatus(
    updateStatus(expandNode(updateStatus(GraphChain, "A", COMPLETED, ""), "X",
                            << NewNode("c1", "collect", <<>>),
                               NewNode("c2", "collect", <<"c1">>) >>),
                 "c1", FAILED, "exec"),
    "c2", RUNNING, "")

SnapshotGraphs == {NewDAG(<<>>), GraphChain, GraphExpanded}

\* the artifacts handed to writeArtifact
ArtifactInputs ==
  {[id |-> id, type |-> "raw_data", format |-> "json",
    path |-> IF id = "input/meta" THEN "input/meta.json"
             ELSE "phases/scope/output/research_plan.json",
    producedBy |-> by, createdAt |-> at] :
      id \in {"input/meta", "scope/research_plan"}, by \in {"system", "scope"},
      at \in {Undefined, Def(0)}}

\* the states handed to savePipelineState
StateInputs ==
  {[projectId |-> ProjectId, mode |-> m, inputType |-> "paper", createdAt |-> 0,
    updatedAt |-> 0, nodes |-> JsNodes(d), artifacts |-> as] :
      m \in {SIMULATED, REAL_DATA}, d \in SnapshotGraphs,
      as \in {<<>>, <<InputMeta>>,
              <<Stamped(InputMeta, 0),
                [id |-> "scope/research_plan", type |-> "research_plan", format |-> "json",
                 path |-> "phases/scope/output/research_plan.json",
                 producedBy |-> "scope", createdAt |-> Undefined]>>}}

Contents == {"text-1", "text-2"}

StoreInit ==
  /\ dag = NewDAG(<<>>)
  /\ last = NoCall
  /\ OrchestratorIdle
  /\ NoWorkspace

\* a call on the workspace: the history keeps what was saved and written
StoreCall(op) == [last EXCEPT !.op = op, !.n = last.n + 1, !.ret = <<>>, !.arg = ""]

\* Date.now(): the calls made so far
Now == last.n + 1

\* workspace.savePipelineState(state)
StoreSave(state) ==
  /\ last.n < MaxCalls
  /\ pipelineJson' = savePipelineState(state, Now)
  /\ writing' = pipelineJson'
  /\ last' = [StoreCall("savePipelineState") EXCEPT
                !.saved = Def([state EXCEPT !.updatedAt = Now])]
  /\ UNCHANGED <<dag, execs, pc, mode, stateMode, planExpanded, synthesisPlanExpanded,
                 config, artifactStore, planFile, sectionFile, loop, raceWon, restarts,
                 dispatched, everCompleted, justResumed, addNodesCalls, expandCalls,
                 everFailed>>

\* workspace.loadPipelineState()
StoreLoad ==
  /\ last.n < MaxCalls
  /\ last' = [StoreCall("loadPipelineState") EXCEPT !.ret = loadPipelineState(pipelineJson)]
  /\ UNCHANGED <<dag, orchestrator>>

\* workspace.writeArtifact(artifact, content)
StoreWriteArtifact(artifact, content) ==
  /\ last.n < MaxCalls
  /\ artifactFiles' = writeFile(artifactFiles, artifact.path, content)
  /\ manifestJson' = addToManifest(manifestJson, Stamped(artifact, Now), Now)
  /\ last' = [StoreCall("writeArtifact") EXCEPT
                !.id = artifact.id,
                !.kids = Append(last.kids, Stamped(artifact, Now))]
  /\ UNCHANGED <<dag, execs, pc, mode, stateMode, planExpanded, synthesisPlanExpanded,
                 config, pipelineJson, writing, writeCalls, planFile, sectionFile, loop,
                 raceWon, restarts, dispatched, everCompleted, justResumed, addNodesCalls,
                 expandCalls, everFailed>>

\* pipeline.json is removed, or a write of it is cut short
StoreDamaged ==
  /\ pipelineJson' \in {NoFile, Garbage}
  /\ pipelineJson' # pipelineJson
  /\ writing' = pipelineJson'
  /\ last' = [last EXCEPT !.op = "damaged", !.ret = <<>>, !.saved = Undefined]
  /\ UNCHANGED <<dag, execs, pc, mode, stateMode, planExpanded, synthesisPlanExpanded,
                 config, artifactStore, planFile, sectionFile, loop, raceWon, restarts,
                 dispatched, everCompleted, justResumed, addNodesCalls, expandCalls,
                 everFailed>>

StoreNext ==
  \/ \E state \in StateInputs : StoreSave(state)
  \/ StoreLoad
  \/ \E artifact \in ArtifactInputs : \E content \in Contents :
       StoreWriteArtifact(artifact, content)
  \/ StoreDamaged

SpecStore == StoreInit /\ [][StoreNext]_vars

(***************************************************************************)
(* writeArtifact calls that overlap: a caller starts a call without        *)
(* awaiting the one before.  A call is suspended at the await of mkdir, of *)
(* the writeFile of the artifact, of the readFile of loadManifest and of   *)
(* the writeFile of the manifest; between two awaits it runs alone.        *)
(***************************************************************************)
\* the artifacts of the overlapping calls, one per id
OverlapArtifacts ==
  {[id |-> id, type |-> "raw_data", format |-> "json",
    path |-> "phases/" \o id \o ".json", producedBy |-> "system",
    createdAt |-> Undefined] : id \in {"scope/research_plan", "design/variables", "design/questionnaire"}}

\* a call in progress: at names the await it is suspended at, manifest is the
\* text the call is writing to manifest.json
WriteCall(artifact, content, at, manifest) ==
  [artifact |-> artifact, content |-> content, at |-> at, manifest |-> manifest]

\* the other workspace state of these runs
StoreIdle ==
  UNCHANGED <<dag, execs, pc, mode, stateMode, planExpanded, synthesisPlanExpanded,
              config, pipelineJson, writing, planFile, sectionFile, loop, raceWon,
              restarts, dispatched, everCompleted, justResumed, addNodesCalls,
              expandCalls, everFailed>>

\* writeArtifact(artifact, content) is called: it runs to await mkdir(dir)
WriteArtifactCalled(artifact, content) ==
  /\ last.n < MaxCalls
  /\ \A c \in writeCalls : c.artifact.id # artifact.id
  /\ artifact.id \notin {last.kids[k].id : k \in 1..Len(last.kids)}
  /\ writeCalls' = writeCalls \cup {WriteCall(artifact, content, "mkdir", NoFile)}
  /\ last' = [StoreCall("writeArtifact") EXCEPT !.id = artifact.id]
  /\ UNCHANGED <<manifestJson, artifactFiles>>
  /\ StoreIdle

\* mkdir has returned: the call goes on to await writeFile(fullPath, content)
MkdirDone(c) ==
  /\ c \in writeCalls
  /\ c.at = "mkdir"
  /\ writeCalls' = (writeCalls \ {c}) \cup {[c EXCEPT !.at = "writeFile"]}
  /\ UNCHANGED <<manifestJson, artifactFiles, last>>
  /\ StoreIdle

\* the file is written: the call stamps createdAt and addToManifest goes on to
\* the readFile of loadManifest
WriteFileDone(c) ==
  /\ c \in writeCalls
  /\ c.at = "writeFile"
  /\ artifactFiles' = writeFile(artifactFiles, c.artifact.path, c.content)
  /\ writeCalls' = (writeCalls \ {c})
                     \cup {[c EXCEPT !.at = "readFile", !.artifact = Stamped(c.artifact, Now)]}
  /\ UNCHANGED <<manifestJson, last>>
  /\ StoreIdle

\* readFile has returned what manifest.json holds now: the call upserts its
\* artifact into that manifest and goes on to await the writeFile of it
ReadManifestDone(c) ==
  /\ c \in writeCalls
  /\ c.at = "readFile"
  /\ writeCalls' = (writeCalls \ {c})
                     \cup {[c EXCEPT !.at = "writeManifest",
                                     !.manifest = addToManifest(manifestJson, c.artifact, Now)]}
  /\ UNCHANGED <<manifestJson, artifactFiles, last>>
  /\ StoreIdle

\* manifest.json is written and the call returns
WriteManifestDone(c) ==
  /\ c \in writeCalls
  /\ c.at = "writeManifest"
  /\ manifestJson' = c.manifest
  /\ writeCalls' = writeCalls \ {c}
  /\ last' = [last EXCEPT !.op = "returned", !.id = c.artifact.id,
                          !.kids = Append(last.kids, c.artifact)]
  /\ UNCHANGED artifactFiles
  /\ StoreIdle

OverlapNext ==
  \/ \E artifact \in OverlapArtifacts : \E content \in Contents :
       WriteArtifactCalled(artifact, content)
  \/ \E c \in writeCalls : MkdirDone(c)
  \/ \E c \in writeCalls : WriteFileDone(c)
  \/ \E c \in writeCalls : ReadManifestDone(c)
  \/ \E c \in writeCalls : WriteManifestDone(c)

SpecOverlap == StoreInit /\ [][OverlapNext]_vars

(***************************************************************************)
(* Properties.                                                             *)
(***************************************************************************)
Ids == DOMAIN dag.nodes

ReadyIds == {id \in Ids : dag.nodes[id].status = PENDING /\ AllDepsCompleted(dag, id)}

RunningIds == {id \in Ids : dag.nodes[id].status = RUNNING}

VirtualParents == {id \in Ids : dag.nodes[id].hasChildren}

\* C1: a node is marked Running and handed to the executor only if, at that
\* moment, it is Pending and every id in its dependsOn resolves to an existing
\* node that is Completed or Skipped.
C1_DispatchOnlyReady ==
  \A x \in dispatched : x.wasPending /\ x.depsDone

\* a tick after a resume dispatches a node that has dependencies
C1_Witness ==
  /\ restarts > 0
  /\ \E x \in dispatched : dag.nodes[x.id].dependsOn # <<>> /\ x.depsDone

\* the loop spins: the graph is neither complete nor stuck, nothing is ready,
\* nothing is in flight, and maybeExpandDAG changes nothing, so every later
\* tick sleeps 500 ms on the same graph
Spinning ==
  /\ pc = "sleep"
  /\ execs = {}
  /\ ~isComplete(dag)
  /\ ~isStuck(dag)
  /\ getReadyNodes(dag) = <<>>
  /\ LET r == maybeExpandFrom(Fields, TakeSnapshot(dag), 1, "a", personaCount)
     IN r.at = "end" /\ r.g = Fields

\* C2: run and resume eventually return or throw; the loop never ticks forever
\* with nothing in flight and nothing ready.
C2_NeverSpins == ~Spinning

\* the status a virtual parent must have according to its children
DerivedStatus(d, p) ==
  IF Cardinality(ChildStatusIn(d, p, {COMPLETED, SKIPPED})) = Len(d.nodes[p].children)
    THEN COMPLETED
  ELSE IF ChildStatusIn(d, p, {FAILED}) # {} /\ ChildStatusIn(d, p, {PENDING, RUNNING}) = {}
    THEN FAILED
  ELSE RUNNING

\* C3: an expanded node is Completed iff every child is Completed or Skipped,
\* Failed iff a child is Failed and no child is Pending or Running, and Running
\* otherwise, in every state after the expansion, also after a resume.
C3_ParentStatusDerived ==
  \A p \in VirtualParents : dag.nodes[p].status = DerivedStatus(dag, p)

\* C4 as stated: at most B nodes have status Running.
C4_AtMostBRunning == Cardinality(RunningIds) <= maxParallel

\* C4 amended: at most B executions are registered in flight, and at most B
\* nodes that are not virtual parents have status Running.
C4_AtMostBInFlight ==
  /\ Cardinality(activeExecutions(execs)) <= maxParallel
  /\ Cardinality(RunningIds \ VirtualParents) <= maxParallel
  /\ RunningIds \ VirtualParents \subseteq activeExecutions(execs)

\* the bound is met by plain nodes while a virtual parent is Running as well
C4_Witness ==
  /\ maxParallel = 2
  /\ Cardinality(RunningIds \ VirtualParents) = 2
  /\ RunningIds \cap VirtualParents # {}

\* C5: a node that has reached Completed (in memory, or in the snapshot loaded
\* by resume) is never dispatched to the executor again.
C5_CompletedNotRedispatched ==
  \A x \in dispatched : ~x.wasCompleted

PersistedStatus == [k \in 1..Len(pipelineJson.nodes) |->
                      <<pipelineJson.nodes[k].id, pipelineJson.nodes[k].status>>]

MemoryStatus == [k \in 1..Len(dag.order) |-> <<dag.order[k], dag.nodes[dag.order[k]].status>>]

\* C6: when run or resume returns or throws the stuck-pipeline error, the last
\* persisted snapshot records the same status for every node as the graph in
\* memory.
C6_SnapshotCurrentAtExit ==
  pc \in {"done", "stuck"} => PersistedStatus = MemoryStatus

\* C7: no status update of a settling dispatch is applied to the graph while the
\* controller is suspended inside the expansion step.
C7_NoSettleInsideExpansion ==
  [][(pc \in {"planIO", "synthIO"} /\ pc' = pc) => dag' = dag]_vars

\* C8: addNodes for the planning node and expandNode for a given parent id are
\* each invoked at most once over the life of a run, resumes included.
C8_ExpansionsAtMostOnce ==
  /\ addNodesCalls <= 1
  /\ \A p \in DOMAIN expandCalls : expandCalls[p] <= 1

\* C9: when resume reaches the loop, every node persisted as Running is Pending
\* with no start time, and every other node has the status it was persisted with
\* (so resume itself turns no node Completed).
C9_ResumeResetsRunning ==
  justResumed =>
    /\ Len(dag.order) = Len(pipelineJson.nodes)
    /\ \A k \in 1..Len(pipelineJson.nodes) :
         LET n == pipelineJson.nodes[k]
         IN /\ Has(dag, n.id)
            /\ n.status = RUNNING =>
                 dag.nodes[n.id].status = PENDING /\ ~dag.nodes[n.id].startedAt
            /\ n.status # RUNNING => dag.nodes[n.id].status = n.status

\* a resume of a snapshot that holds a Running plain node and a Completed one
C9_Witness ==
  /\ justResumed
  /\ \E k \in 1..Len(pipelineJson.nodes) :
       pipelineJson.nodes[k].status = RUNNING /\ ~pipelineJson.nodes[k].hasChildren
  /\ \E k \in 1..Len(pipelineJson.nodes) : pipelineJson.nodes[k].status = COMPLETED

\* the graph is not complete, has no ready node and no Running node
NoProgressPossible ==
  /\ \E id \in Ids : dag.nodes[id].status \in {PENDING, RUNNING}
  /\ ReadyIds = {}
  /\ RunningIds = {}

\* C10: a tick that starts with the graph not complete, no ready node and no
\* Running node throws the stuck-pipeline error, dispatches nothing and leaves the
\* graph as it is.
C10_StuckTickThrows ==
  [][(pc = "top" /\ NoProgressPossible /\ restarts' = restarts)
       => (pc' = "stuck" /\ dag' = dag /\ execs' = execs)]_vars

\* the loop has thrown the stuck-pipeline error behind a Failed node
C10_Witness ==
  /\ pc = "stuck"
  /\ \E id \in Ids : dag.nodes[id].status = FAILED
  /\ \E id \in Ids : dag.nodes[id].status = PENDING

\* a step in which the executor of a node threw, rejected or timed out
FailedSettle == last'.op = "settle" /\ last'.arg = FAILED

\* the step made the node Failed with the captured text, did not stop the
\* controller and took away no ready node that depends neither on the node nor
\* on an expanded parent of it
FailureApplied ==
  /\ DOMAIN dag'.nodes = DOMAIN dag.nodes
  /\ dag'.nodes[last'.id].status = FAILED
  /\ dag'.nodes[last'.id].error = last'.text
  /\ dag'.nodes[last'.id].completedAt
  /\ pc' = pc
  /\ pc' \in Suspended
  /\ \A x \in DOMAIN dag.nodes \ {last'.id} :
       (/\ dag.nodes[x].status = PENDING
        /\ AllDepsCompleted(dag, x)
        /\ \A dep \in Range(dag.nodes[x].dependsOn) :
              /\ dep # last'.id
              /\ ~(dag.nodes[dep].hasChildren /\ last'.id \in Range(dag.nodes[dep].children)))
         => (dag'.nodes[x].status = PENDING /\ AllDepsCompleted(dag', x))

\* C11 as stated: an executor that throws, rejects or times out makes exactly
\* that node Failed with the captured error text, no other node changes, and
\* the loop does not throw and goes on scheduling.
C11_ExactlyThatNodeFails ==
  [][FailedSettle =>
       /\ FailureApplied
       /\ \A x \in DOMAIN dag.nodes \ {last'.id} : dag'.nodes[x] = dag.nodes[x]]_vars

\* C11 amended: the node becomes Failed with the captured error text; the only
\* other nodes that change are expanded parents that list it as a child, which
\* become Failed when no child of theirs is Pending or Running; the loop does
\* not throw and goes on scheduling.
C11_FailureConfined ==
  [][FailedSettle =>
       /\ FailureApplied
       /\ \A x \in DOMAIN dag.nodes \ {last'.id} :
            \/ dag'.nodes[x] = dag.nodes[x]
            \/ /\ dag.nodes[x].hasChildren
               /\ last'.id \in Range(dag.nodes[x].children)
               /\ dag'.nodes[x].status = FAILED
               /\ ChildStatusIn(dag', x, {PENDING, RUNNING}) = {}
               /\ dag'.nodes[x].dependsOn = dag.nodes[x].dependsOn]_vars

\* the last child of an expanded parent has just failed and the parent is Failed
C11_Witness ==
  /\ last.op = "settle"
  /\ last.arg = FAILED
  /\ dag.nodes[last.id].status = FAILED
  /\ \E p \in VirtualParents :
       last.id \in Range(dag.nodes[p].children) /\ dag.nodes[p].status = FAILED

\* the direct and transitive dependents of the nodes that became Failed
DependentsOfFailed == Downstream(dag, everFailed) \ everFailed

\* C12: every direct and transitive dependent of a node that became Failed
\* stays Pending, is never ready and is never dispatched for the rest of the
\* run.
C12_DependentsStayPending ==
  \A x \in DependentsOfFailed :
     /\ dag.nodes[x].status = PENDING
     /\ x \notin ReadyIds
     /\ \A y \in dispatched : y.id # x

\* C13: resume throws a validation error, and dispatches nothing, whenever the
\* graph it is about to execute has a cycle, a dependency on a node that does
\* not exist, or no root: it reaches the loop with a valid graph only.
C13_ResumeValidates == justResumed => validate(dag) = {}

\* C14: run and resume end by returning a snapshot or by throwing a validation,
\* node-execution or stuck-pipeline error; no other error escapes.  "failed" is
\* the controller position after an error of expandPlanPhase or
\* expandSynthesizeSections has escaped executionLoop.
C14_OnlyNamedErrors == pc # "failed"

\* C15: when run or resume returns normally every node is Completed, Failed or
\* Skipped and no dispatch is still in flight.
C15_ReturnsWhenAllDone ==
  pc = "done" =>
    /\ \A id \in Ids : dag.nodes[id].status \in {COMPLETED, FAILED, SKIPPED}
    /\ execs = {}

\* a step that is a call expandNode(last'.id, last'.kids)
ExpandStep == last'.op = "expandNode"

\* the dependency list node x had when the call was made: the one it was
\* inserted with if it is a child, the one it had in the graph otherwise
DepsBefore(x) ==
  IF \E k \in 1..Len(last'.kids) : last'.kids[k].id = x
    THEN (CHOOSE c \in Range(last'.kids) : c.id = x).dependsOn
    ELSE dag.nodes[x].dependsOn

\* C16: after expandNode(P, children) every node other than P has each
\* occurrence of P in its dependency list replaced by the id of the last entry
\* of children, no node other than P depends on P, and every other dependency
\* entry of every node is unchanged.
C16_DependenciesRewritten ==
  [][ExpandStep =>
       LET P == last'.id
           lastChild == last'.kids[Len(last'.kids)].id
       IN /\ \A x \in DOMAIN dag'.nodes \ {P} :
               /\ Len(dag'.nodes[x].dependsOn) = Len(DepsBefore(x))
               /\ \A k \in 1..Len(DepsBefore(x)) :
                    dag'.nodes[x].dependsOn[k] =
                      IF DepsBefore(x)[k] = P THEN lastChild ELSE DepsBefore(x)[k]
               /\ P \notin Range(dag'.nodes[x].dependsOn)
          /\ dag'.nodes[P].dependsOn = dag.nodes[P].dependsOn]_vars

\* X has been expanded into [c1, c2] and D, which depended on X twice, depends
\* on c2 twice
C16_Witness ==
  /\ last.op = "expandNode"
  /\ last.id = "X"
  /\ Len(last.kids) = 2
  /\ Has(dag, "D")
  /\ dag.nodes["D"].dependsOn = <<"c2", "A", "c2">>

\* the node x as getReadablePaths sees it after the step, declaring arts
NodeAfter(x, arts) == [dependsOn |-> dag'.nodes[x].dependsOn, inputArtifacts |-> arts]

\* the nodes whose dependency on the expanded parent the step rewrites
Rewritten == {x \in DOMAIN dag.nodes \ {last'.id} : last'.id \in Range(dag.nodes[x].dependsOn)}

\* the parent's output directory and working directory
LocationsOf(P) == {getOutputDir(P), getNodeWorkDir(P)}

ChildrenDone(p) ==
  \A c \in Range(dag.nodes[p].children) :
     Has(dag, c) /\ dag.nodes[c].status \in {COMPLETED, SKIPPED}

\* C18: after expandNode(P, children) with all children Pending, once every
\* child has been brought to Completed or Skipped through updateStatus, in any
\* order, P is Completed and has a completion time, without any call of
\* updateStatus on P.
C18_ParentCompletesWithChildren ==
  \A p \in VirtualParents :
     (~last.direct /\ ChildrenDone(p)) =>
        dag.nodes[p].status = COMPLETED /\ dag.nodes[p].completedAt

\* c2 was finished before c1, c1 was then skipped, and the parent is Completed
C18_Witness ==
  /\ last.op = "updateStatus"
  /\ last.id = "c1"
  /\ last.arg = SKIPPED
  /\ ~last.direct
  /\ \E p \in VirtualParents :
        /\ dag.nodes[p].children = <<"c1", "c2">>
        /\ dag.nodes["c2"].status = COMPLETED
        /\ dag.nodes[p].status = COMPLETED
        /\ dag.nodes[p].completedAt

\* the dependency ids of x that are missing, or not Completed and not Skipped
Unsatisfied(x) ==
  {dep \in Range(dag.nodes[x].dependsOn) :
      \/ dep \notin Ids
      \/ dag.nodes[dep].status \in {PENDING, RUNNING, FAILED}}

C20_StuckIff ==
  isStuck(dag) <=>
     /\ \E x \in Ids : dag.nodes[x].status \in {PENDING, RUNNING}
     /\ ReadyIds = {}
     /\ RunningIds = {}

\* a failure has just left the graph stuck: a Pending node waits for a Failed one
C20_Witness ==
  /\ last.op = "updateStatus"
  /\ last.arg = FAILED
  /\ isStuck(dag)
  /\ \E x \in Ids :
        /\ dag.nodes[x].status = PENDING
        /\ \E dep \in Range(dag.nodes[x].dependsOn) \cap Ids : dag.nodes[dep].status = FAILED

\* x reaches itself by following dependsOn over one or more steps
OnCycle(d, x) == x \in Downstream(d, DirectDependents(d, {x}))

\* C21: validate() reports a cycle error iff the dependency relation contains
\* a cycle, self-dependencies included, and the node id named in the error lies
\* on a cycle; for an acyclic node set it reports no cycle error.
C21_CycleReportedIff ==
  last.op = "validate" =>
     /\ ("cycle" \in last.ret) <=> (\E x \in Ids : OnCycle(dag, x))
     /\ ("cycle" \in last.ret) => (last.text \in Ids /\ OnCycle(dag, last.text))

\* validate() was called on a graph whose first node lies on no cycle but leads
\* into one, and it named a node of that cycle
C21_Witness ==
  /\ last.op = "validate"
  /\ "cycle" \in last.ret
  /\ Len(dag.order) = 3
  /\ ~OnCycle(dag, dag.order[1])
  /\ dag.nodes[dag.order[1]].dependsOn # <<>>
  /\ OnCycle(dag, last.text)

\* the position of id in the returned order, 0 when it is not there
PositionIn(order, id) ==
  IF \E k \in 1..Len(order) : order[k] = id
    THEN CHOOSE k \in 1..Len(order) : order[k] = id
    ELSE 0

\* C22: getTopologicalOrder() throws iff the dependency relation contains a
\* cycle; otherwise it returns a list that contains each id of the node set
\* exactly once and no other id, with every dependency of a node placed before
\* that node.
C22_TopologicalOrder ==
  last.op = "getTopologicalOrder" =>
     /\ last.ret.threw <=> (\E x \in Ids : OnCycle(dag, x))
     /\ ~last.ret.threw =>
          /\ Range(last.ret.order) = Ids
          /\ Len(last.ret.order) = Cardinality(Ids)
          /\ \A x \in Ids : \A dep \in Range(dag.nodes[x].dependsOn) :
                /\ PositionIn(last.ret.order, dep) > 0
                /\ PositionIn(last.ret.order, dep) < PositionIn(last.ret.order, x)

\* the properties that are not optional are the same in both objects
RequiredEq(a, b, optional) ==
  \A k \in (DOMAIN a \cup DOMAIN b) \ optional :
     k \in DOMAIN a /\ k \in DOMAIN b /\ a[k] = b[k]

SameArtifact(a, b) ==
  RequiredEq(a, b, ArtifactOptional) /\ Read(a, "createdAt") = Read(b, "createdAt")

RECURSIVE SameNode(_, _)
SameNode(a, b) ==
  /\ RequiredEq(a, b, NodeOptional)
  /\ \A k \in {"startedAt", "completedAt", "error"} : Read(a, k) = Read(b, k)
  /\ Read(a, "children").def = Read(b, "children").def
  /\ Read(a, "children").def =>
       /\ Len(a.children.v) = Len(b.children.v)
       /\ \A i \in 1..Len(a.children.v) : SameNode(a.children.v[i], b.children.v[i])

\* C23: loadPipelineState() performed after savePipelineState(s), with no
\* save in between, returns a snapshot whose node collection and artifact
\* collection are equal in content to those of s.
C23_SaveLoadRoundTrip ==
  (last.op = "loadPipelineState" /\ last.saved.def) =>
     /\ ~last.ret.threw
     /\ ~last.ret.null
     /\ Len(last.ret.state.nodes) = Len(last.saved.v.nodes)
     /\ \A i \in 1..Len(last.saved.v.nodes) :
          SameNode(last.ret.state.nodes[i], last.saved.v.nodes[i])
     /\ Len(last.ret.state.artifacts) = Len(last.saved.v.artifacts)
     /\ \A i \in 1..Len(last.saved.v.artifacts) :
          SameArtifact(last.ret.state.artifacts[i], last.saved.v.artifacts[i])

\* a state with an expanded node, an error text and an artifact without a
\* creation time was saved and then loaded
C23_Witness ==
  /\ last.op = "loadPipelineState"
  /\ last.saved.def
  /\ ~last.ret.null
  /\ \E i \in 1..Len(last.saved.v.nodes) :
        last.saved.v.nodes[i].children.def /\ ~last.saved.v.nodes[i].completedAt.def
  /\ \E i \in 1..Len(last.saved.v.artifacts) : ~last.saved.v.artifacts[i].createdAt.def
  /\ \E i \in 1..Len(last.ret.state.nodes) : "children" \in DOMAIN last.ret.state.nodes[i]

\* pipeline.json is missing or does not parse
Unreadable_pipelineJson == ~pipelineJson.exists \/ ~pipelineJson.valid

\* C24: loadPipelineState() never throws: when no snapshot has been saved, or
\* the stored document cannot be read, it returns null and leaves the store
\* unchanged.
C24_LoadNeverThrows ==
  [][last'.op = "loadPipelineState" =>
       /\ ~last'.ret.threw
       /\ Unreadable_pipelineJson => last'.ret.null
       /\ pipelineJson' = pipelineJson
       /\ manifestJson' = manifestJson
       /\ artifactFiles' = artifactFiles]_vars

\* a load that found an unparsable document and returned null
C24_Witness ==
  /\ last.op = "loadPipelineState"
  /\ pipelineJson = Garbage
  /\ last.ret.null
  /\ ~last.ret.threw

\* the artifacts written so far with the id, in the order written
WrittenWith(id) == SelectSeq(last.kids, LAMBDA a : a.id = id)

\* C25: after any sequence of writeArtifact calls executed one after another,
\* the manifest holds at most one record per artifact id, and the record stored
\* for an id is the one passed to the most recent writeArtifact with that id;
\* records of other ids are unchanged.
C25_ManifestOneRecordPerId ==
  last.kids # <<>> =>
     /\ manifestJson.exists /\ manifestJson.valid
     /\ LET stored == manifestJson.doc.artifacts
        IN /\ \A i, j \in 1..Len(stored) : stored[i].id = stored[j].id => i = j
           /\ {stored[i].id : i \in 1..Len(stored)} = {last.kids[i].id : i \in 1..Len(last.kids)}
           /\ \A i \in 1..Len(stored) :
                SameArtifact(stored[i],
                             WrittenWith(stored[i].id)[Len(WrittenWith(stored[i].id))])

\* an id was written again with another producer after a different id had been
\* written, and the manifest holds two records
C25_Witness ==
  /\ last.op = "writeArtifact"
  /\ Len(WrittenWith(last.id)) >= 2
  /\ WrittenWith(last.id)[1].producedBy # WrittenWith(last.id)[Len(WrittenWith(last.id))].producedBy
  /\ Len(manifestJson.doc.artifacts) = 2

\* what getReadablePaths returns for the node id of the live graph
ReadableBy(id) ==
  getReadablePaths([dependsOn |-> dag.nodes[id].dependsOn,
                    inputArtifacts |-> inputArtifactsOf(id)])

\* the other children of the expanded parents that list id
Siblings(id) ==
  {m \in Ids \ {id} :
     \E p \in VirtualParents :
        id \in Range(dag.nodes[p].children) /\ m \in Range(dag.nodes[p].children)}

\* C26: for every node n, getReadablePaths(n) contains no directory that is
\* the output directory of a sibling n does not depend on or of a node
\* downstream of n, and two distinct node ids never share an output directory.
C26_Isolation ==
  /\ \A n \in Ids :
       /\ \A m \in Siblings(n) \ Range(dag.nodes[n].dependsOn) :
             getOutputDir(m) \notin ReadableBy(n)
       /\ \A m \in Downstream(dag, {n}) \ {n} : getOutputDir(m) \notin ReadableBy(n)
  /\ \A n, m \in Ids : getOutputDir(n) = getOutputDir(m) => n = m

\* C27: the stuck-pipeline error carries the count of nodes in each of the
\* five statuses and the id of every Failed node, and these values equal the
\* graph's state at the moment the error is raised.
C27_StuckErrorCarriesSnapshot ==
  last.op = "stuck" =>
     /\ {"pending", "running", "completed", "failed", "skipped", "failedIds"}
          \subseteq DOMAIN last.ret
     /\ \A s \in {"pending", "running", "completed", "failed", "skipped"} :
          last.ret[s] = getSummary(dag)[s]
     /\ last.ret.failedIds = FailedIds(dag)

\* C28: in every reachable state of a run, after each addNodes and each
\* expandNode performed by the orchestrator, the live dependency relation is
\* acyclic and every dependency id resolves to an existing node; no node is
\* dispatched while validate() would report a violation.
C28_LiveGraphValid ==
  /\ (addNodesCalls > 0 \/ expandCalls # <<>>) =>
        (~(\E x \in Ids : OnCycle(dag, x))
         /\ \A x \in Ids : Range(dag.nodes[x].dependsOn) \subseteq Ids)
  /\ dispatched # {} => validate(dag) = {}

\* a step that is the dispatch step of a tick
TickStep == pc = "top" /\ pc' \in {"wait", "sleep"}

\* the nodes the step moves from Pending to Running
Moved == {x \in Ids : dag.nodes[x].status = PENDING /\ dag'.nodes[x].status = RUNNING}

Min(a, b) == IF a <= b THEN a ELSE b

\* C29: at the dispatch step of each tick, with r ready nodes and k dispatches
\* in flight under bound B, exactly min(r, B - k) nodes are moved from Pending
\* to Running, each is marked Running before its executor is invoked, and the
\* remaining ready nodes stay Pending.
C29_WorkConserving ==
  [][TickStep =>
       /\ Cardinality(Moved) = Min(Cardinality(ReadyIds), maxParallel - Cardinality(execs))
       /\ Moved \subseteq ReadyIds
       /\ {x.id : x \in dispatched'} = Moved
       /\ \A x \in Moved : \E e \in execs' : e.id = x /\ e.tracked
       /\ \A x \in ReadyIds \ Moved : dag'.nodes[x].status = PENDING]_vars

\* C30: at every suspension point of the controller, the set of in-flight
\* dispatches equals the set of nodes that have status Running and have not
\* been expanded, its size is at most the bound, and no node id has more than
\* one dispatch in flight.
C30_InFlightIsRunning ==
  pc \in Suspended =>
     /\ {e.id : e \in execs} = RunningIds \ VirtualParents
     /\ Cardinality(execs) <= maxParallel
     /\ \A e1, e2 \in execs : e1.id = e2.id => e1 = e2

\* C31: a node that has been expanded into children is never handed to the
\* executor, neither later in the same run nor after a resume of a snapshot
\* taken while some of its children were unfinished.
C31_ExpandedNeverDispatched ==
  \A x \in dispatched : ~x.wasExpanded

\* the trigger of an expansion target is Completed: a design-type node for
\* collect in mode A, synthesize/plan for synthesize
Triggered(d, m, id) ==
  \/ /\ id = CollectId
     /\ m = SIMULATED
     /\ \E t \in DOMAIN d.nodes : d.nodes[t].type = "design" /\ d.nodes[t].status = COMPLETED
  \/ /\ id = SynthId
     /\ Has(d, SynthPlanId)
     /\ d.nodes[SynthPlanId].status = COMPLETED

\* C32: once the trigger node of an expansion target (collect, synthesize) is
\* Completed, the target is expanded before a readiness computation selects
\* it: the target is never dispatched to the executor in unexpanded form.
C32_ExpansionPrecedesDispatch ==
  \A x \in dispatched : Triggered(dag, mode, x.id) => x.wasExpanded

\* C33: after expandNode(P, children), no child of P is ready before every
\* original dependency of P is Completed or Skipped.
C33_ChildrenInheritDependencies ==
  \A p \in VirtualParents :
    \A c \in Range(dag.nodes[p].children) :
      Has(dag, c) /\ IsReady(dag, c) => AllDepsCompleted(dag, p)

\* a step that is a call expandNode(P, children') on a P that has children
ReexpandStep ==
  last'.op = "expandNode" /\ Has(dag, last'.id) /\ dag.nodes[last'.id].hasChildren

\* the nodes that depended on P before P was first expanded: they depend on
\* the last child of that expansion and are not among its children
OriginalDependents(P) ==
  LET old == dag.nodes[P].children
  IN {x \in DOMAIN dag.nodes \ ({P} \cup Range(old)) :
        old[Len(old)] \in Range(dag.nodes[x].dependsOn)}

Terminal == {COMPLETED, FAILED, SKIPPED}

\* C34: after a second expandNode(P, children') on an already-expanded P,
\* every node that originally depended on P depends on a node of P's current
\* child list, no terminal child status is reset, and P's status satisfies the
\* derived-status rule.
C34_SecondExpansionSafe ==
  [][ReexpandStep =>
       LET P == last'.id
       IN /\ \A x \in OriginalDependents(P) :
               \E k \in 1..Len(dag'.nodes[x].dependsOn) :
                  dag'.nodes[x].dependsOn[k] \in Range(dag'.nodes[P].children)
          /\ \A c \in Range(dag.nodes[P].children) :
               Has(dag, c) /\ dag.nodes[c].status \in Terminal
                 => dag'.nodes[c].status = dag.nodes[c].status
          /\ dag'.nodes[P].status = DerivedStatus(dag', P)]_vars

\* the graph is valid: every dependency id resolves, the node set is empty or
\* has a node without dependencies, and no node lies on a cycle
Valid(d) ==
  /\ \A x \in DOMAIN d.nodes : \A k \in 1..Len(d.nodes[x].dependsOn) :
        Has(d, d.nodes[x].dependsOn[k])
  /\ DOMAIN d.nodes = {} \/ \E x \in DOMAIN d.nodes : d.nodes[x].dependsOn = <<>>
  /\ \A x \in DOMAIN d.nodes : ~OnCycle(d, x)

\* the number of dangling-reference errors of the list that name (x, dep)
Reported(errs, x, dep) ==
  Cardinality({k \in 1..Len(errs) :
                 errs[k] = [kind |-> "dangling", node |-> x, dep |-> dep]})

\* the missing ids node x lists
MissingOf(d, x) == {dep \in Range(d.nodes[x].dependsOn) : ~Has(d, dep)}

\* C35 as stated: validate() returns an empty list iff the graph is valid, and
\* exactly one dangling-reference error for each (node, missing id) pair.
C35_OneErrorPerPair ==
  last.op = "validate" =>
     /\ (last.errors = <<>>) <=> Valid(dag)
     /\ \A x \in Ids : \A dep \in MissingOf(dag, x) : Reported(last.errors, x, dep) = 1

\* C35: validate() returns an empty list iff every dependency id resolves, the
\* node set is empty or has a node with an empty dependency list, and the
\* relation is acyclic; it returns one dangling-reference error for each
\* occurrence of a missing id in a node's dependency list, and none for an id
\* that resolves.
C35_ValidateReports ==
  last.op = "validate" =>
     /\ (last.errors = <<>>) <=> Valid(dag)
     /\ \A x \in Ids : \A dep \in DepIds :
          Reported(last.errors, x, dep) =
            IF Has(dag, dep) THEN 0
            ELSE Cardinality({k \in 1..Len(dag.nodes[x].dependsOn) :
                                dag.nodes[x].dependsOn[k] = dep})
     /\ {last.errors[k].kind : k \in 1..Len(last.errors)} = last.ret

\* validate() was called on a graph in which one node lists the same missing
\* id twice, and it returned two dangling-reference errors and nothing else
C35_Witness ==
  /\ last.op = "validate"
  /\ Len(dag.order) = 2
  /\ dag.nodes["A"].dependsOn = <<>>
  /\ dag.nodes["X"].dependsOn = <<"ghost", "ghost">>
  /\ last.errors = << [kind |-> "dangling", node |-> "X", dep |-> "ghost"],
                      [kind |-> "dangling", node |-> "X", dep |-> "ghost"] >>

\* a step that is a call of updateStatus or expandNode with an id that is not
\* in the node set
MissingIdCall ==
  /\ last'.n = last.n + 1
  /\ last'.text \in {"updateStatus", "expandNode"}
  /\ ~Has(dag, last'.id)

\* C36: updateStatus(id, ...) and expandNode(id, ...) called with an id that
\* is not in the node set throw an error and leave every node's status,
\* dependency list, child list and timestamps unchanged.
C36_MissingIdThrows ==
  [][MissingIdCall => last'.op = "threw" /\ dag' = dag]_vars

\* expandNode was called with an id the graph does not have, on a graph that
\* holds an expanded parent and a Completed node, and it threw
C36_Witness ==
  /\ last.op = "threw"
  /\ last.text = "expandNode"
  /\ VirtualParents # {}
  /\ CompletedIds(dag) # {}

\* a step that is resume(): a fresh process builds the graph from pipeline.json
ResumeStep == restarts' = restarts + 1

\* the parents expandNode was called on in the step
ExpandedNow ==
  {P \in DOMAIN expandCalls' : P \notin DOMAIN expandCalls \/ expandCalls'[P] # expandCalls[P]}

\* the ids the step handed to this.nodes.set: the plan's nodes of addNodes,
\* the children of expandNode
Upserted ==
  (IF addNodesCalls' # addNodesCalls THEN NodeIds(PlanToNodes(planFile)) ELSE {})
  \cup UNION {Range(dag'.nodes[P].children) : P \in ExpandedNow}

\* the dependency list of x after the step is the one before it, with each
\* parent expanded in the step replaced by the last child it was given
OnlyRewritten(x) ==
  LET old == dag.nodes[x].dependsOn
      new == dag'.nodes[x].dependsOn
  IN /\ Len(new) = Len(old)
     /\ \A k \in 1..Len(old) :
          new[k] = IF old[k] \in ExpandedNow /\ x \notin ExpandedNow
                     THEN dag'.nodes[old[k]].children[Len(dag'.nodes[old[k]].children)]
                     ELSE old[k]

\* C37 as stated: no step, resume included, removes a node id from the graph.
C37_IdsOnlyGrow ==
  [][DOMAIN dag.nodes \subseteq DOMAIN dag'.nodes]_vars

\* C37: addNodes, expandNode and updateStatus never remove a node id, and
\* resume() builds a graph that has exactly the ids of the snapshot it loads,
\* each with the dependency list stored there; outside resume, a node that is
\* not upserted in the step keeps its dependency list except for expandNode's
\* rewrite of the expanded parent's id.
C37_IdsKeptDepsStable ==
  [][IF ResumeStep
       THEN /\ DOMAIN dag'.nodes = NodeIds(pipelineJson.nodes)
            /\ \A k \in 1..Len(pipelineJson.nodes) :
                 dag'.nodes[pipelineJson.nodes[k].id].dependsOn =
                   pipelineJson.nodes[k].dependsOn
       ELSE /\ DOMAIN dag.nodes \subseteq DOMAIN dag'.nodes
            /\ \A x \in DOMAIN dag.nodes \ Upserted : OnlyRewritten(x)]_vars

\* after a resume and an addNodes call collect has been expanded, and
\* synthesize/plan, which listed collect, lists the aggregation node
C37_Witness ==
  /\ Has(dag, CollectId)
  /\ dag.nodes[CollectId].hasChildren
  /\ Has(dag, SynthPlanId)
  /\ dag.nodes[SynthPlanId].dependsOn = <<AggregateId>>
  /\ restarts > 0
  /\ addNodesCalls > 0

\* C38: whenever the loop is back at its test, after the save of the
\* iteration or after resume(), the mode stored in pipeline.json equals the
\* orchestrator's current mode, also after the plan has re-classified the
\* input; a resumed run therefore schedules under the mode that was in effect.
C38_SnapshotModeCurrent ==
  pc = "top" => pipelineJson.mode = mode

\* the ids that have a record in manifest.json
ManifestIds ==
  IF manifestJson.exists /\ manifestJson.valid
    THEN {manifestJson.doc.artifacts[k].id : k \in 1..Len(manifestJson.doc.artifacts)}
    ELSE {}

\* C39: when writeArtifact calls for distinct artifact ids have been in
\* progress concurrently and all of them have returned, the manifest contains
\* a record for every one of those ids.
C39_NoLostManifestUpdate ==
  writeCalls = {} => {last.kids[k].id : k \in 1..Len(last.kids)} \subseteq ManifestIds

====
